---- MODULE Spec2Model ----
(***************************************************************************)
(* Model of the adaptive transaction-construction and resilient-execution  *)
(* engine of the creek scripts (wdsui.mjs, wd.mjs, deposit.mjs, borrow.mjs,*)
(* repay.mjs).                                                             *)
(*                                                                         *)
(* Amounts are BigInt in the source (no overflow); they are modelled as    *)
(* naturals, scaled down: the source probes from 1_000_000 up to           *)
(* 100_000_000_000, the model from 1..MaxStart up to 0..MaxCap.            *)
(*                                                                         *)
(* An error message is modelled by the set of the words of Words it        *)
(* contains; a regular expression by the set of the words it matches.      *)
(***************************************************************************)
EXTENDS Integers, Sequences, FiniteSets, TLC

VARIABLES
  oracle,      \* simulate outcome of the selected entry, per amount (on-chain state held fixed)
  startGuess,  \* findMaxWithdrawable: startGuess
  capGuess,    \* findMaxWithdrawable: capGuess
  fm,          \* findMaxWithdrawable: locals lo, hi, L, R, best, position pc, returned value ret
  probes,      \* the probeEntry calls made so far: <<[amt, ok, phase]>>
  ex,          \* the retry loop of one script: its locals (i, amount, lastErr, ...) and position pc
  attempts,    \* what the retry loop did so far: submissions, dry runs, throws, sleeps
  pb,          \* one transaction being built and run: probeEntry, runOnce or a wd.mjs attempt
  net,         \* the network calls made for that transaction, in order
  disc,        \* entry-point discovery: candidate packages, scan position, entries found
  own,         \* the ownership checks of a run: what was observed, which ids were used
  drn,         \* wdsui.mjs from its first amount to the end of the drain loop
  pair,        \* the (ObligationKey, Obligation) pair of a run: wallet, overrides, the pair chosen
  orc,         \* auto.mjs: the account queue, its workers, the daily state file
  rp           \* main of repay.mjs and borrow.mjs: the gas budget, the coins, the portions split

fmVars == <<oracle, startGuess, capGuess, fm, probes>>
exVars == <<ex, attempts>>
pbVars == <<pb, net>>
dcVars == <<disc>>
owVars == <<own>>
drVars == <<drn>>
prVars == <<pair>>
orVars == <<orc>>
rpVars == <<rp>>
vars == <<oracle, startGuess, capGuess, fm, probes, ex, attempts, pb, net, disc, own, drn, pair, orc, rp>>

\* what the steps of one part leave alone
notFm == <<exVars, pbVars, dcVars, owVars, drVars, prVars, orVars, rpVars>>
notEx == <<fmVars, pbVars, dcVars, owVars, drVars, prVars, orVars, rpVars>>
notPb == <<fmVars, exVars, dcVars, owVars, drVars, prVars, orVars, rpVars>>
notDc == <<fmVars, exVars, pbVars, owVars, drVars, prVars, orVars, rpVars>>
notOw == <<fmVars, exVars, pbVars, dcVars, drVars, prVars, orVars, rpVars>>
notDr == <<fmVars, exVars, pbVars, dcVars, owVars, prVars, orVars, rpVars>>
notPr == <<fmVars, exVars, pbVars, dcVars, owVars, drVars, orVars, rpVars>>
notOr == <<fmVars, exVars, pbVars, dcVars, owVars, drVars, prVars, rpVars>>
notRp == <<fmVars, exVars, pbVars, dcVars, owVars, drVars, prVars, orVars>>

\* ------------------------------------------------------------------ bounds
MaxStart == 2
MaxCap == 4
MaxRetryCfg == 3
MaxAmount == 3
MaxParams == 2
MaxPkgs == 2
MaxListing == 2
MaxNameLen == 2
MaxProbeCalls == 2

\* ------------------------------------------------- parts that are not running
ExIdle == [script |-> "none", pc |-> "idle"]
FindMaxIdle ==
  /\ oracle = <<>> /\ startGuess = 0 /\ capGuess = 0
  /\ fm = [pc |-> "idle"] /\ probes = <<>>
ExecIdle == ex = ExIdle /\ attempts = <<>>
ProbeIdle == pb = [pc |-> "idle"] /\ net = <<>>
DiscIdle == disc = [pc |-> "idle"]
OwnIdle == own = [pc |-> "idle"]
DrainIdle == drn = [pc |-> "idle"]
PairIdle == pair = [pc |-> "idle"]
OrcIdle == orc = [pc |-> "idle"]
RepayIdle == rp = [pc |-> "idle"]

\* ---------------------------------------------------------------- messages
\* Words an error message may contain (what the scripts' regular expressions look for).
Words == {"gas", "insufficient", "exceed", "1793"}
Messages == SUBSET Words

\* regex.test(msg): some alternative of the expression occurs in the message
Matches(re, msg) == (re \cap msg) # {}

\* /(health|limit|ELTV|ELVR|insufficient|cannot|over|MoveAbort|EINSUFFICIENT)/i
FindMaxLimitRe == {"insufficient"}

\* ------------------------------------------------------ findMaxWithdrawable
\* Largest amount a run of findMaxWithdrawable can probe: mid <= hi - 1 < 2 * capGuess
MaxAmt == 2 * MaxCap

\* what a dry run reports: {ok, err}
SimOk == [ok |-> TRUE, err |-> {}]
SimFail(m) == [ok |-> FALSE, err |-> m]
ProbeResults == {SimOk, SimFail({"insufficient"}), SimFail({})}

\* probeEntry(..., amountRaw, ...): the dry run of the transaction at that amount
probeEntry(o, amountRaw) == o[amountRaw]

\* let lo = 0n; let hi = startGuess;
FMStart(start) ==
  [pc |-> "grow", lo |-> 0, hi |-> start, L |-> 0, R |-> 0, best |-> 0, ret |-> 0]

\* while (L <= R) ... return best;
FMBinLoop(s) ==
  IF s.L <= s.R THEN [s EXCEPT !.pc = "bin"]
                ELSE [s EXCEPT !.pc = "done", !.ret = s.best]

\* Mutant of FMAfterGrow: the binary search runs over [lo, hi] instead of [lo, hi-1].
FMAfterGrowInclusiveHi(s) ==
  IF s.lo = 0 THEN [s EXCEPT !.pc = "done", !.ret = 0]
              ELSE FMBinLoop([s EXCEPT !.L = s.lo, !.R = s.hi, !.best = s.lo])

\* if (lo === 0n) return 0n;  let L = lo, R = hi - 1n, best = lo;
FMAfterGrow(s) ==
  IF s.lo = 0 THEN [s EXCEPT !.pc = "done", !.ret = 0]
              ELSE FMBinLoop([s EXCEPT !.L = s.lo, !.R = s.hi - 1, !.best = s.lo])

\* hi = hi * 2n
FMDouble(hi) == hi * 2

\* Mutant of FMGrowStep: an error outside the resource-limit pattern empties the
\* amount space (lo is reset) instead of keeping the last accepted step.
FMGrowStepEmptyOnOther(s, p) ==
  IF p.ok THEN [s EXCEPT !.lo = s.hi, !.hi = FMDouble(s.hi)]
  ELSE IF Matches(FindMaxLimitRe, p.err) THEN FMAfterGrow(s)
  ELSE FMAfterGrow([s EXCEPT !.lo = 0])

\* Mutant of FMGrowStep: an error outside the resource-limit pattern does not
\* stop the exploration (the next doubling step is probed).
FMGrowStepGoesOnAfterOther(s, p) ==
  IF p.ok THEN [s EXCEPT !.lo = s.hi, !.hi = FMDouble(s.hi)]
  ELSE IF Matches(FindMaxLimitRe, p.err) THEN FMAfterGrow(s)
  ELSE [s EXCEPT !.hi = FMDouble(s.hi)]

\* one iteration of phase 1, given the probe's result p
FMGrowStep(s, p) ==
  IF p.ok THEN [s EXCEPT !.lo = s.hi, !.hi = FMDouble(s.hi)]
  ELSE IF Matches(FindMaxLimitRe, p.err) THEN FMAfterGrow(s)   \* break
  ELSE FMAfterGrow(s)                                          \* break: stop and use lo

\* const mid = (L + R) >> 1n
FMMid(L, R) == (L + R) \div 2

\* Mutant of FMBinStep: best is recorded before the probe's result is looked at.
FMBinStepKeepsRejected(s, p) ==
  LET mid == FMMid(s.L, s.R) IN
  IF p.ok THEN FMBinLoop([s EXCEPT !.best = mid, !.L = mid + 1])
  ELSE FMBinLoop([s EXCEPT !.best = mid, !.R = mid - 1])

\* Mutant of FMBinStep: a rejection keeps mid inside the interval (R = mid).
FMBinStepNoShrink(s, p) ==
  LET mid == FMMid(s.L, s.R) IN
  IF p.ok THEN FMBinLoop([s EXCEPT !.best = mid, !.L = mid + 1])
  ELSE FMBinLoop([s EXCEPT !.R = mid])

\* one iteration of phase 2, given the probe's result p at mid
FMBinStep(s, p) ==
  LET mid == FMMid(s.L, s.R) IN
  IF p.ok THEN FMBinLoop([s EXCEPT !.best = mid, !.L = mid + 1])
  ELSE IF Matches(FindMaxLimitRe, p.err) THEN FMBinLoop([s EXCEPT !.R = mid - 1])
  ELSE FMBinLoop([s EXCEPT !.R = mid - 1])

\* the amount the next probe of the run is made at
FMNextProbe(s) == IF s.pc = "grow" THEN s.hi ELSE FMMid(s.L, s.R)

\* one step of findMaxWithdrawable: up to and including its next await
FMStep(o, cap, s) ==
  CASE s.pc = "grow" /\ s.hi <= cap -> FMGrowStep(s, probeEntry(o, s.hi))
    [] s.pc = "grow" /\ s.hi > cap  -> FMAfterGrow(s)
    [] s.pc = "bin"                 -> FMBinStep(s, probeEntry(o, FMMid(s.L, s.R)))
    [] OTHER                        -> s

RECURSIVE FMRun(_, _, _, _)
FMRun(o, cap, s, fuel) ==
  IF s.pc = "done" \/ fuel = 0 THEN s ELSE FMRun(o, cap, FMStep(o, cap, s), fuel - 1)

\* findMaxWithdrawable(client, sender, selected, registryId, assetType, ctxFixed, startGuess, capGuess)
findMaxWithdrawable(o, start, cap) == FMRun(o, cap, FMStart(start), 4 * MaxAmt).ret

InitFindMax ==
  /\ oracle \in [1..MaxAmt -> ProbeResults]
  /\ startGuess \in 1..MaxStart
  /\ capGuess \in 0..MaxCap
  /\ fm = FMStart(startGuess)
  /\ probes = <<>>
  /\ ExecIdle
  /\ ProbeIdle
  /\ DiscIdle
  /\ OwnIdle
  /\ DrainIdle
  /\ PairIdle
  /\ OrcIdle
  /\ RepayIdle

LogProbe(phase) ==
  LET a == FMNextProbe(fm) IN
  probes' = Append(probes, [amt |-> a, ok |-> probeEntry(oracle, a).ok, phase |-> phase])

\* phase 1: probe at hi
FMGrowProbe ==
  /\ fm.pc = "grow" /\ fm.hi <= capGuess
  /\ fm' = FMStep(oracle, capGuess, fm)
  /\ LogProbe(1)
  /\ UNCHANGED <<oracle, startGuess, capGuess>>
  /\ UNCHANGED notFm

\* phase 1 ends because hi exceeds the ceiling
FMGrowExit ==
  /\ fm.pc = "grow" /\ fm.hi > capGuess
  /\ fm' = FMStep(oracle, capGuess, fm)
  /\ UNCHANGED <<oracle, startGuess, capGuess, probes>>
  /\ UNCHANGED notFm

\* phase 2: probe at mid
FMBinProbe ==
  /\ fm.pc = "bin"
  /\ fm' = FMStep(oracle, capGuess, fm)
  /\ LogProbe(2)
  /\ UNCHANGED <<oracle, startGuess, capGuess>>
  /\ UNCHANGED notFm

NextFindMax == FMGrowProbe \/ FMGrowExit \/ FMBinProbe

SpecFindMax == InitFindMax /\ [][NextFindMax]_vars

FairFindMax == SpecFindMax /\ WF_vars(NextFindMax)

\* ------------------------------------------------- findMaxWithdrawable: claims
Phase1Probes == SelectSeq(probes, LAMBDA p : p.phase = 1)
Phase2Probes == SelectSeq(probes, LAMBDA p : p.phase = 2)
AcceptedAmounts == {probes[i].amt : i \in {j \in DOMAIN probes : probes[j].ok}}
SetMax(S) == CHOOSE x \in S : \A y \in S : y <= x
RECURSIVE Pow2(_)
Pow2(n) == IF n = 0 THEN 1 ELSE 2 * Pow2(n - 1)

\* C1: an amount returned by findMaxWithdrawable (a non-zero result) probes as
\* accepted against the same, unchanged oracle.
C1_ReturnedAmountProbesAccepted ==
  (fm.pc = "done" /\ fm.ret # 0) => probeEntry(oracle, fm.ret).ok

\* C1 witness: the binary search met a rejection and still returned an amount
\* above the last accepted doubling step.
C1_Witness ==
  /\ fm.pc = "done" /\ fm.ret > fm.lo /\ fm.lo > 0
  /\ \E i \in DOMAIN probes : probes[i].phase = 2 /\ ~probes[i].ok

\* C2: the result is 0 when the probe at startGuess is not accepted; otherwise it
\* is the largest amount for which a probe succeeded and lies in [lo, hi-1], lo
\* the last accepted doubling step, hi = 2*lo the first rejected or
\* ceiling-exceeding doubling step.
C2_LargestAcceptedInInterval ==
  fm.pc = "done" =>
    LET p1 == Phase1Probes
        acc1 == SelectSeq(p1, LAMBDA p : p.ok)
    IN IF Len(acc1) = 0
         THEN fm.ret = 0
         ELSE LET lo == acc1[Len(acc1)].amt
                  hi == 2 * lo
              IN /\ p1[1].amt = startGuess /\ p1[1].ok
                 /\ \/ hi > capGuess
                    \/ p1[Len(p1)].amt = hi /\ ~p1[Len(p1)].ok
                 /\ fm.ret = SetMax(AcceptedAmounts)
                 /\ lo <= fm.ret /\ fm.ret <= hi - 1

\* C2 witness (Scenario B, scaled): startGuess accepted, 2*startGuess rejected with
\* a resource-limit message, and the result lies strictly inside [lo, hi-1].
C2_Witness ==
  /\ fm.pc = "done" /\ Len(Phase1Probes) = 2
  /\ probes[1].ok /\ probes[1].amt = startGuess
  /\ ~probes[2].ok /\ probes[2].amt = 2 * startGuess
  /\ Matches(FindMaxLimitRe, probeEntry(oracle, 2 * startGuess).err)
  /\ 2 * startGuess <= capGuess
  /\ fm.ret > startGuess /\ fm.ret < 2 * startGuess

\* C3: with the oracle and startGuess fixed, every smaller ceiling yields a result
\* that is not larger than the result for this ceiling.
C3_MonotonicInCeiling ==
  fm.pc = "done" =>
    \A c \in 0..capGuess : findMaxWithdrawable(oracle, startGuess, c) <= fm.ret

\* C3 witness: a smaller ceiling finds a non-zero but strictly smaller maximum.
C3_Witness ==
  /\ fm.pc = "done"
  /\ \E c \in 0..capGuess :
       /\ findMaxWithdrawable(oracle, startGuess, c) > 0
       /\ findMaxWithdrawable(oracle, startGuess, c) < fm.ret

IntervalSize(s) == s.R - s.L + 1

Scripts == {"wdsui", "wd", "repay", "borrow", "deposit"}

\* msg.includes('Balance of gas object') || /gas/i.test(msg)
GasRe == {"gas"}

\* /health|limit|exceed|insufficient|cannot|over|abort|MoveAbort|EINSUFFICIENT|ELTV|ELVR|not enough/i
ExecLimitRe == {"insufficient", "exceed"}

\* msgStr.includes('1793')
MarketFullRe == {"1793"}

\* DUST and MIN_DEPOSIT of deposit.mjs, scaled down
DepDust == 1
DepMinDeposit == 2

\* The error messages a failed run is given: unrelated, fee shortfall, resource
\* limit (two wordings), fee shortfall and resource limit at once, market full.
ExecMessages ==
  {{}, {"gas"}, {"insufficient"}, {"exceed"}, {"gas", "insufficient"}, {"1793"}}

Submitted(ok, m) == [kind |-> "submit", ok |-> ok, err |-> m]
Threw(m) == [kind |-> "threw", ok |-> FALSE, err |-> m]
DryRan(ok, m) == [kind |-> "dryrun", ok |-> ok, err |-> m]

\* execTxCompat and the status check after it: the transaction is submitted and
\* succeeds, is submitted and comes back with a failure status (the error is then
\* thrown), or a call before the submit throws.
ExecOutcomes ==
  {Submitted(TRUE, {})} \cup {Submitted(FALSE, m) : m \in ExecMessages}
                        \cup {Threw(m) : m \in ExecMessages}

\* the DRYRUN branch: the dry run reports a status, or a call before it throws
DryOutcomes ==
  {DryRan(TRUE, {})} \cup {DryRan(FALSE, m) : m \in ExecMessages}
                     \cup {Threw(m) : m \in ExecMessages}

MaxOf(a, b) == IF a >= b THEN a ELSE b
MinOf(a, b) == IF a <= b THEN a ELSE b

\* Mutant of AttemptLimit: the loop runs one iteration too many (i <= n + 1).
AttemptLimitOffByOne(e) ==
  IF e.script = "deposit" THEN e.maxRetry + 1 ELSE MaxOf(1, e.maxRetry) + 1

\* for (let i = 1; i <= Math.max(1, MAX_RETRY); i++)     (deposit: attempt <= MAX_RETRY)
AttemptLimit(e) ==
  IF e.script = "deposit" THEN e.maxRetry ELSE MaxOf(1, e.maxRetry)

\* return true / return false / process.exit(0) / process.exit(1)
Finish(e, res) == [e EXCEPT !.pc = "done", !.result = res]

\* Mutant of WdCatch: the resource-limit pattern is tested before the gas pattern.
WdCatchLimitFirst(e, msg) ==
  LET e1 == [e EXCEPT !.lastErr = <<msg>>] IN
  IF Matches(ExecLimitRe, msg) THEN
    LET next == e.amount \div 2 IN
    IF next = 0 THEN Finish(e1, "fail")
    ELSE [e1 EXCEPT !.amount = next, !.pc = "sleep"]
  ELSE Finish(e1, "fail")

\* Mutant of WdCatch: the halved amount is not tested against 0.
WdCatchNoFloor(e, msg) ==
  LET e1 == [e EXCEPT !.lastErr = <<msg>>] IN
  IF Matches(GasRe, msg) THEN Finish(e1, "fail")
  ELSE IF Matches(ExecLimitRe, msg) THEN
    [e1 EXCEPT !.amount = e.amount \div 2, !.pc = "sleep"]
  ELSE Finish(e1, "fail")

\* Mutant of WdCatch: an unclassified error is retried after the backoff.
WdCatchRetriesOther(e, msg) ==
  LET e1 == [e EXCEPT !.lastErr = <<msg>>] IN
  IF Matches(GasRe, msg) THEN Finish(e1, "fail")
  ELSE IF Matches(ExecLimitRe, msg) THEN
    LET next == e.amount \div 2 IN
    IF next = 0 THEN Finish(e1, "fail")
    ELSE [e1 EXCEPT !.amount = next, !.pc = "sleep"]
  ELSE [e1 EXCEPT !.pc = "sleep"]

\* catch (e) { ... } of attemptWithBackoff and of the wd.mjs loop
WdCatch(e, msg) ==
  LET e1 == [e EXCEPT !.lastErr = <<msg>>] IN
  IF Matches(GasRe, msg) THEN Finish(e1, "fail")
  ELSE IF Matches(ExecLimitRe, msg) THEN
    LET next == e.amount \div 2 IN
    IF next = 0 THEN Finish(e1, "fail")
    ELSE [e1 EXCEPT !.amount = next, !.pc = "sleep"]
  ELSE Finish(e1, "fail")

\* one iteration of attemptWithBackoff (wdsui.mjs), r what runOnce did
WdsuiStep(e, r) ==
  IF r.kind = "threw" \/ (r.kind = "submit" /\ ~r.ok) THEN WdCatch(e, r.err)
  ELSE IF r.ok THEN Finish(e, "success")           \* if (r.status === 'success') return true
  ELSE [e EXCEPT !.i = e.i + 1]                    \* DRYRUN, status 'fail': next iteration

\* one iteration of the wd.mjs loop
WdStep(e, r) ==
  IF r.kind = "dryrun" THEN Finish(e, IF r.ok THEN "success" ELSE "fail")
  ELSE IF r.kind = "submit" /\ r.ok THEN Finish(e, "success")
  ELSE WdCatch(e, r.err)

\* one iteration of the repay.mjs / borrow.mjs loop
RetryStep(e, r) ==
  IF r.kind = "submit" /\ r.ok THEN Finish(e, "success")
  ELSE LET e1 == [e EXCEPT !.lastErr = <<r.err>>] IN
       IF e.i < AttemptLimit(e) THEN [e1 EXCEPT !.pc = "sleep"]
                                ELSE [e1 EXCEPT !.i = e.i + 1]

\* deposit.mjs: const spendCap = bal > DUST ? (bal - DUST) : bal; amount = min(want, spendCap)
DepEffectiveAmount(e) ==
  MinOf(e.want, IF e.bal > DepDust THEN e.bal - DepDust ELSE e.bal)

\* deposit.mjs: the checks before the transaction is built
DepPreconditions(e) ==
  e.bal > 0 /\ e.bal > DepDust /\ DepEffectiveAmount(e) >= DepMinDeposit

\* Mutant of DepStep: the halved amount is not raised to MIN_DEPOSIT.
DepStepNoFloor(e, r) ==
  IF r.kind = "submit" /\ r.ok THEN Finish(e, "success")
  ELSE IF Matches(MarketFullRe, r.err) THEN
    [e EXCEPT !.want = DepEffectiveAmount(e) \div 2,
              !.lastErr = <<r.err>>, !.pc = "sleep"]
  ELSE Finish([e EXCEPT !.lastErr = <<r.err>>], "fail")

\* one iteration of the deposit.mjs loop, past its checks
DepStep(e, r) ==
  IF r.kind = "submit" /\ r.ok THEN Finish(e, "success")
  ELSE IF Matches(MarketFullRe, r.err) THEN
    [e EXCEPT !.want = MaxOf(DepEffectiveAmount(e) \div 2, DepMinDeposit),
              !.lastErr = <<r.err>>, !.pc = "sleep"]
  ELSE Finish([e EXCEPT !.lastErr = <<r.err>>], "fail")

\* what one iteration did, and which Transaction object it ran (0: none)
LogEntry(r, amount, i, tx) ==
  [kind |-> r.kind, ok |-> r.ok, err |-> r.err, amount |-> amount, i |-> i, tx |-> tx]

\* const tx = new Transaction() inside the iteration
NewTransaction(e) == e.built + 1

InitExec ==
  /\ FindMaxIdle
  /\ ProbeIdle
  /\ DiscIdle
  /\ OwnIdle
  /\ DrainIdle
  /\ PairIdle
  /\ OrcIdle
  /\ RepayIdle
  /\ attempts = <<>>
  /\ \E sc \in Scripts, mr \in 0..MaxRetryCfg, dr \in BOOLEAN,
        amt \in (1..(2 * MaxAmount)) \cup {1000}, bal \in 0..(2 * MaxAmount) :
       /\ sc = "deposit" => ~dr /\ amt >= DepMinDeposit /\ amt # 1000
       /\ sc # "deposit" => bal = 0 /\ amt \in (1..MaxAmount) \cup {1000}
       /\ \E am \in BOOLEAN, low \in BOOLEAN, coins \in 1..2 :
            /\ sc # "borrow" => ~am /\ ~low /\ coins = 1
            /\ ex = [script |-> sc, maxRetry |-> mr, dryrun |-> dr, i |-> 1,
                     amount |-> amt, want |-> IF sc = "deposit" THEN amt ELSE 0,
                     bal |-> bal, pc |-> IF sc = "borrow" THEN "gas" ELSE "loop",
                     result |-> "none", lastErr |-> <<>>,
                     autoMerge |-> am, lowGas |-> low, suiCoins |-> coins,
                     merge |-> "none", built |-> IF sc = "repay" THEN 1 ELSE 0]

\* borrow.mjs ensureSuiForGas: with AUTO_MERGE_SUI set, the largest SUI coin
\* below the gas budget and more than one SUI coin, a mergeCoins transaction is
\* run through execTxCompat
MergeWanted(e) == e.autoMerge /\ e.lowGas /\ e.suiCoins > 1

\* borrow.mjs: gas clamp and optional merge, then the one transaction is built
ExBorrowGas ==
  /\ ex.script = "borrow" /\ ex.pc = "gas"
  /\ \E outcome \in (IF MergeWanted(ex) THEN {"submitted", "rejected", "threw"}
                                         ELSE {"none"}) :
       ex' = [ex EXCEPT !.merge = outcome, !.pc = "loop", !.built = 1]
  /\ UNCHANGED attempts
  /\ UNCHANGED notEx

\* wdsui.mjs: one runOnce(amountRaw) inside attemptWithBackoff
ExWdsuiAttempt ==
  /\ ex.script = "wdsui" /\ ex.pc = "loop" /\ ex.i <= AttemptLimit(ex)
  /\ \E r \in (IF ex.dryrun THEN DryOutcomes ELSE ExecOutcomes) :
       /\ ex' = [WdsuiStep(ex, r) EXCEPT !.built = NewTransaction(ex)]
       /\ attempts' = Append(attempts, LogEntry(r, ex.amount, ex.i, NewTransaction(ex)))
  /\ UNCHANGED notEx

\* wd.mjs: one iteration of the main loop
ExWdAttempt ==
  /\ ex.script = "wd" /\ ex.pc = "loop" /\ ex.i <= AttemptLimit(ex)
  /\ \E r \in (IF ex.dryrun THEN DryOutcomes ELSE ExecOutcomes) :
       /\ ex' = [WdStep(ex, r) EXCEPT !.built = NewTransaction(ex)]
       /\ attempts' = Append(attempts, LogEntry(r, ex.amount, ex.i, NewTransaction(ex)))
  /\ UNCHANGED notEx

\* repay.mjs / borrow.mjs: the DRYRUN branch before the loop
ExRetryDryRun ==
  /\ ex.script \in {"repay", "borrow"} /\ ex.pc = "loop" /\ ex.dryrun
  /\ \E r \in DryOutcomes :
       /\ ex' = Finish([ex EXCEPT !.lastErr = IF r.kind = "threw" THEN <<r.err>> ELSE <<>>],
                       IF r.ok THEN "success" ELSE "fail")
       /\ attempts' = Append(attempts, LogEntry(r, ex.amount, ex.i, ex.built))
  /\ UNCHANGED notEx

\* repay.mjs / borrow.mjs: one iteration of the execute loop
ExRetryAttempt ==
  /\ ex.script \in {"repay", "borrow"} /\ ex.pc = "loop" /\ ~ex.dryrun
  /\ ex.i <= AttemptLimit(ex)
  /\ \E r \in ExecOutcomes :
       /\ ex' = RetryStep(ex, r)
       /\ attempts' = Append(attempts, LogEntry(r, ex.amount, ex.i, ex.built))
  /\ UNCHANGED notEx

\* deposit.mjs: one iteration of the main loop
ExDepositAttempt ==
  /\ ex.script = "deposit" /\ ex.pc = "loop" /\ ex.i <= AttemptLimit(ex)
  /\ IF DepPreconditions(ex)
       THEN \E r \in ExecOutcomes :
              /\ ex' = [DepStep(ex, r) EXCEPT !.built = NewTransaction(ex)]
              /\ attempts' = Append(attempts, LogEntry(r, DepEffectiveAmount(ex), ex.i,
                                                       NewTransaction(ex)))
       ELSE /\ ex' = Finish(ex, "fail")          \* throw before the transaction is built
            /\ attempts' = Append(attempts, LogEntry(Threw({}), DepEffectiveAmount(ex), ex.i, 0))
  /\ UNCHANGED notEx

\* await sleep(RETRY_WAIT_MS); continue  (i++)
ExBackoff ==
  /\ ex.pc = "sleep"
  /\ ex' = [ex EXCEPT !.pc = "loop", !.i = ex.i + 1]
  /\ attempts' = Append(attempts, [kind |-> "sleep", ok |-> FALSE, err |-> {},
                                   amount |-> ex.amount, i |-> ex.i, tx |-> 0])
  /\ UNCHANGED notEx

\* the loop condition fails: return false / FATAL, process.exit(1)
ExExhausted ==
  /\ ex.pc = "loop" /\ ex.i > AttemptLimit(ex)
  /\ ~(ex.script \in {"repay", "borrow"} /\ ex.dryrun)
  /\ ex' = Finish(ex, "fail")
  /\ UNCHANGED attempts
  /\ UNCHANGED notEx

NextExec ==
  \/ ExBorrowGas \/ ExWdsuiAttempt \/ ExWdAttempt \/ ExRetryDryRun \/ ExRetryAttempt
  \/ ExDepositAttempt \/ ExBackoff \/ ExExhausted

SpecExec == InitExec /\ [][NextExec]_vars

\* ------------------------------------------------------------ executor: claims
WithdrawScripts == {"wdsui", "wd"}
RetryScripts == {"repay", "borrow"}

\* a run of the transaction that failed: a rejected submission or a throw
FailedRun(a) == a.kind = "threw" \/ (a.kind = "submit" /\ ~a.ok)
IsFeeShortfall(a) == FailedRun(a) /\ Matches(GasRe, a.err)
IsResourceLimit(a) == FailedRun(a) /\ ~Matches(GasRe, a.err) /\ Matches(ExecLimitRe, a.err)
IsOtherError(a) == FailedRun(a) /\ ~Matches(GasRe, a.err) /\ ~Matches(ExecLimitRe, a.err)
Submissions == SelectSeq(attempts, LAMBDA a : a.kind = "submit")
Runs == SelectSeq(attempts, LAMBDA a : a.kind # "sleep")
EndedInFailure == ex.pc = "done" /\ ex.result = "fail"

C6_FeeShortfallAborts ==
  ex.script \in WithdrawScripts =>
    \A k \in DOMAIN attempts :
      IsFeeShortfall(attempts[k]) =>
        /\ k = Len(attempts)
        /\ EndedInFailure
        /\ ex.amount = attempts[k].amount

\* C6 witness (Scenario E): a rejected submission whose message matches both
\* patterns, with attempts left and an amount that could be halved.
C6_Witness ==
  /\ ex.script \in WithdrawScripts /\ Len(attempts) > 0
  /\ LET a == attempts[Len(attempts)] IN
       /\ a.kind = "submit" /\ ~a.ok
       /\ Matches(GasRe, a.err) /\ Matches(ExecLimitRe, a.err)
       /\ a.i < AttemptLimit(ex) /\ a.amount >= 2

C8_BoundedAttempts ==
  /\ [](/\ Len(Submissions) <= MaxOf(1, ex.maxRetry)
        /\ Len(Runs) <= MaxOf(1, ex.maxRetry)
        /\ ex.i <= MaxOf(1, ex.maxRetry) + 1
        /\ \A k \in DOMAIN attempts :
             (attempts[k].kind = "submit" /\ attempts[k].ok) =>
               k = Len(attempts) /\ ex.pc = "done" /\ ex.result = "success")
  /\ [][ex.pc = "done" => attempts' = attempts]_vars

\* C8 witness: a call that used all of its three attempts, the last one a
\* successful submission.
C8_Witness ==
  /\ ex.maxRetry = 3 /\ Len(Submissions) = 3
  /\ ex.pc = "done" /\ ex.result = "success"

\* ------------------------------------------------------------ buildWithdrawArgs
\* A parameter descriptor is modelled by the set of the type patterns that occur
\* in JSON.stringify(p); the empty set is a parameter no pattern matches
\* (TxContext, a Coin, ...).
Tags == {"Version", "Obligation", "ObligationKey", "Market", "Registry", "U64",
         "Oracle", "Clock"}
ParamShapes ==
  {{t} : t \in Tags} \cup {{}, {"ObligationKey", "U64"}, {"Version", "Clock"}}

RECURSIVE SeqsUpTo(_, _)
SeqsUpTo(S, n) ==
  IF n = 0 THEN {<<>>}
  ELSE LET shorter == SeqsUpTo(S, n - 1) IN
       shorter \cup {Append(q, x) : q \in {r \in shorter : Len(r) = n - 1}, x \in S}

\* tx.object(id) / tx.pure.u64(amount)
ObjectArg(id) == [kind |-> "object", id |-> id, amt |-> 0]
U64Arg(n) == [kind |-> "u64", id |-> "", amt |-> n]

Push(a) == [err |-> "", push |-> <<a>>]
ThrowMissing(role) == [err |-> role, push |-> <<>>]

\* Mutant of BuildArg: a missing ObligationKey is skipped instead of thrown.
BuildArgOmitsMissingKey(p, ctx) ==
  IF "Version" \in p THEN Push(ObjectArg("VERSION_ID"))
  ELSE IF "Obligation" \in p THEN Push(ObjectArg("obligationId"))
  ELSE IF "ObligationKey" \in p THEN
    IF ctx.obligationKeyId = "" THEN [err |-> "", push |-> <<>>]
    ELSE Push(ObjectArg(ctx.obligationKeyId))
  ELSE IF "Market" \in p THEN Push(ObjectArg("MARKET_ID"))
  ELSE IF "Registry" \in p THEN
    IF ctx.DECIMALS_REGISTRY_ID = "" THEN ThrowMissing("CoinDecimalsRegistry")
    ELSE Push(ObjectArg(ctx.DECIMALS_REGISTRY_ID))
  ELSE IF "U64" \in p THEN
    IF ctx.amountRaw = <<>> THEN ThrowMissing("u64 amount")
    ELSE Push(U64Arg(ctx.amountRaw[1]))
  ELSE IF "Oracle" \in p THEN Push(ObjectArg("X_ORACLE_ID"))
  ELSE IF "Clock" \in p THEN Push(ObjectArg("CLOCK_ID"))
  ELSE [err |-> "", push |-> <<>>]

\* Mutant of BuildArg: the U64 test comes before the ObligationKey test.
BuildArgAmountBeforeKey(p, ctx) ==
  IF "Version" \in p THEN Push(ObjectArg("VERSION_ID"))
  ELSE IF "Obligation" \in p THEN Push(ObjectArg("obligationId"))
  ELSE IF "U64" \in p THEN
    IF ctx.amountRaw = <<>> THEN ThrowMissing("u64 amount")
    ELSE Push(U64Arg(ctx.amountRaw[1]))
  ELSE IF "ObligationKey" \in p THEN
    IF ctx.obligationKeyId = "" THEN ThrowMissing("ObligationKey")
    ELSE Push(ObjectArg(ctx.obligationKeyId))
  ELSE IF "Market" \in p THEN Push(ObjectArg("MARKET_ID"))
  ELSE IF "Registry" \in p THEN
    IF ctx.DECIMALS_REGISTRY_ID = "" THEN ThrowMissing("CoinDecimalsRegistry")
    ELSE Push(ObjectArg(ctx.DECIMALS_REGISTRY_ID))
  ELSE IF "Oracle" \in p THEN Push(ObjectArg("X_ORACLE_ID"))
  ELSE IF "Clock" \in p THEN Push(ObjectArg("CLOCK_ID"))
  ELSE [err |-> "", push |-> <<>>]

\* the body of buildWithdrawArgs's loop for one parameter: what it pushes, or
\* the role whose value is missing (the Error it throws)
BuildArg(p, ctx) ==
  IF "Version" \in p THEN Push(ObjectArg("VERSION_ID"))
  ELSE IF "Obligation" \in p THEN Push(ObjectArg("obligationId"))
  ELSE IF "ObligationKey" \in p THEN
    IF ctx.obligationKeyId = "" THEN ThrowMissing("ObligationKey")
    ELSE Push(ObjectArg(ctx.obligationKeyId))
  ELSE IF "Market" \in p THEN Push(ObjectArg("MARKET_ID"))
  ELSE IF "Registry" \in p THEN
    IF ctx.DECIMALS_REGISTRY_ID = "" THEN ThrowMissing("CoinDecimalsRegistry")
    ELSE Push(ObjectArg(ctx.DECIMALS_REGISTRY_ID))
  ELSE IF "U64" \in p THEN
    IF ctx.amountRaw = <<>> THEN ThrowMissing("u64 amount")
    ELSE Push(U64Arg(ctx.amountRaw[1]))
  ELSE IF "Oracle" \in p THEN Push(ObjectArg("X_ORACLE_ID"))
  ELSE IF "Clock" \in p THEN Push(ObjectArg("CLOCK_ID"))
  ELSE [err |-> "", push |-> <<>>]                  \* TxContext is implicit

\* Mutant of CollectArg: args.unshift instead of args.push.
CollectArgInFront(args, b) == b.push \o args

\* args.push(...)
CollectArg(args, b) == args \o b.push

RECURSIVE BuildLoop(_, _, _, _)
BuildLoop(params, ctx, k, args) ==
  IF k > Len(params) THEN [ok |-> TRUE, err |-> "", args |-> args]
  ELSE LET b == BuildArg(params[k], ctx) IN
       IF b.err # "" THEN [ok |-> FALSE, err |-> b.err, args |-> <<>>]
       ELSE BuildLoop(params, ctx, k + 1, CollectArg(args, b))

\* buildWithdrawArgs(tx, params, ctx)
buildWithdrawArgs(params, ctx) == BuildLoop(params, ctx, 1, <<>>)

\* ------------------------------------------- one transaction: build, simulate, submit
\* probeEntry and runOnce (wdsui.mjs) fetch the function's metadata first; the
\* wd.mjs loop fetched it once before its first attempt; tryPickWorkingRegistry
\* is given the parameters and first looks up the candidate's owner.  The loops
\* of deposit.mjs, repay.mjs and borrow.mjs ("execLoop") hand a transaction
\* they assembled from fixed calls to execTxCompat, or to their DRYRUN branch.
Sites == {"probeEntry", "tryPickWorkingRegistry", "runOnce", "wdLoop", "execLoop"}

\* the sites whose arguments come from buildWithdrawArgs
MatcherSites == Sites \ {"execLoop"}

\* the transaction of deposit.mjs, repay.mjs and borrow.mjs: calls written out in the script
FixedCalls == <<"moveCall">>

\* the sites that only test a transaction
ProbeSites == {"probeEntry", "tryPickWorkingRegistry"}

\* addOracleRefreshForAsset / addOracleRefreshGR
OracleRefresh ==
  <<"price_update_request", "set_price_as_primary", "confirm_price_update_request">>

NotBuilt == [ok |-> FALSE, err |-> "", args |-> <<>>]

\* getOwnerKind: the owner of the object, or null (no owner, unknown kind, or
\* the lookup threw)
OwnerKinds == {"Shared", "Immutable", "AddressOwner", "ObjectOwner", "null"}

\* ownerKind === 'Shared' || ownerKind === 'Immutable'
SharedOrImmutable(kind) == kind \in {"Shared", "Immutable"}

\* what dryRunTransactionBlock answers: sim.effects.status
DryRunResponses ==
  {[status |-> "success", error |-> {}],
   [status |-> "failure", error |-> {"insufficient"}],
   [status |-> "failure", error |-> {}]}

\* Mutant of ProbeResultOf: a probe after the first reports a rejection (a flag
\* left set by the earlier probe).
ProbeResultOfFirstOnly(sim) ==
  [ok |-> sim.status = "success" /\ pb.hist = <<>>, err |-> sim.error]

\* ok = sim.effects?.status?.status === 'success'; err = sim.effects?.status?.error || ''
ProbeResultOf(sim) == [ok |-> sim.status = "success", err |-> sim.error]

\* /(limit|health|ELTV|ELVR|insufficient|cannot|over|MoveAbort)/i
RegistryAcceptRe == {"insufficient"}

\* the locals of one call
PbFresh(site) ==
  [pc |-> CASE site = "wdLoop" -> "args"
            [] site = "tryPickWorkingRegistry" -> "owner"
            [] site = "execLoop" -> "build"
            [] OTHER -> "fetch",
   built |-> NotBuilt, tx |-> IF site = "execLoop" THEN FixedCalls ELSE <<>>,
   err |-> "", ownerKind |-> "null",
   sim |-> [status |-> "none", error |-> {}], res |-> SimOk]

InitProbe ==
  /\ FindMaxIdle
  /\ ExecIdle
  /\ DiscIdle
  /\ OwnIdle
  /\ DrainIdle
  /\ PairIdle
  /\ OrcIdle
  /\ RepayIdle
  /\ net = <<>>
  /\ \E site \in Sites, dr \in BOOLEAN, ps \in SeqsUpTo(ParamShapes, MaxParams),
        key \in {"", "0xkey"}, reg \in {"", "0xreg"}, amt \in {<<>>, <<1>>} :
       /\ site \in ProbeSites => amt = <<1>>
       /\ site = "tryPickWorkingRegistry" => reg = "0xreg"
       /\ site = "execLoop" => ps = <<>> /\ key = "" /\ reg = "" /\ amt = <<1>>
       /\ pb = [site |-> site, dryrun |-> dr, params |-> ps,
                ctx |-> [obligationKeyId |-> key, DECIMALS_REGISTRY_ID |-> reg,
                         amountRaw |-> amt],
                hist |-> <<>>] @@ PbFresh(site)

\* Mutant of PbAssemble: the action call is added before the refresh calls.
PbAssembleActionFirst(b) ==
  LET r == buildWithdrawArgs(b.params, b.ctx) IN
  IF r.ok THEN [b EXCEPT !.built = r, !.tx = <<"withdraw">> \o OracleRefresh,
                         !.pc = "build"]
          ELSE [b EXCEPT !.built = r, !.tx = OracleRefresh, !.err = r.err,
                         !.pc = "threw"]

\* new Transaction(); addOracleRefresh...(tx); buildWithdrawArgs(...); tx.moveCall(...)
PbAssemble(b) ==
  LET r == buildWithdrawArgs(b.params, b.ctx) IN
  IF r.ok THEN [b EXCEPT !.built = r, !.tx = Append(OracleRefresh, "withdraw"),
                         !.pc = "build"]
          ELSE [b EXCEPT !.built = r, !.tx = OracleRefresh, !.err = r.err,
                         !.pc = "threw"]

\* client.getNormalizedMoveModulesByPackage, then everything up to the next await
PbFetchMetadata ==
  /\ pb.pc = "fetch"
  /\ net' = Append(net, "getNormalizedMoveModulesByPackage")
  /\ \/ pb' = PbAssemble(pb)
     \/ pb' = [pb EXCEPT !.pc = "threw", !.err = "network"]
  /\ UNCHANGED notPb

\* Mutant of OwnerLookupFailed: the error of getObject leaves getOwnerKind.
OwnerLookupThrows(b) == [b EXCEPT !.pc = "threw", !.err = "network"]

\* getOwnerKind: catch { return null } (and no owner in the answer): the caller
\* sees null and skips the candidate
OwnerLookupFailed(b) == [b EXCEPT !.ownerKind = "null", !.pc = "skipped"]

\* tryPickWorkingRegistry: getOwnerKind(cand); a candidate that is not Shared or
\* Immutable is skipped, for another the transaction is assembled
PbOwnerKind ==
  /\ pb.pc = "owner"
  /\ net' = Append(net, "getObject")
  /\ \E kind \in OwnerKinds :
       pb' = IF kind = "null" THEN OwnerLookupFailed(pb)
             ELSE IF SharedOrImmutable(kind)
               THEN PbAssemble([pb EXCEPT !.ownerKind = kind])
               ELSE [pb EXCEPT !.ownerKind = kind, !.pc = "skipped"]
  /\ UNCHANGED notPb

\* wd.mjs: the attempt starts with the transaction's assembly
PbAssembleOnly ==
  /\ pb.pc = "args"
  /\ pb' = PbAssemble(pb)
  /\ UNCHANGED <<notPb, net>>

\* Mutant of AfterBuild: execTxCompat goes from the build to the submit.
AfterBuildSkipsDryRun(b) ==
  IF b.site \in ProbeSites \/ b.dryrun THEN "simulate" ELSE "submit"

\* const built = await tx.build(...); const sim = await client.dryRunTransactionBlock(...)
AfterBuild(b) == "simulate"

\* tx.build({ client, onlyTransactionKind: false })
PbBuild ==
  /\ pb.pc = "build"
  /\ net' = Append(net, "build")
  /\ \/ pb' = [pb EXCEPT !.pc = AfterBuild(pb)]
     \/ pb' = [pb EXCEPT !.pc = "threw", !.err = "network"]
  /\ UNCHANGED notPb

\* Mutant of SimulateOnly: a probe goes on to the submit unless DRYRUN is set.
SimulateOnlyWhenFlag(b) == b.dryrun

\* Mutant of SimulateOnly: runOnce and the wd.mjs loop ignore DRYRUN.
SimulateOnlyInProbes(b) == b.site \in ProbeSites

\* the dry run is the call's last step: always in probeEntry and
\* tryPickWorkingRegistry (they hold no submit), under DRYRUN in runOnce and in
\* the wd.mjs loop; otherwise it is execTxCompat's logged dry run
SimulateOnly(b) == b.site \in ProbeSites \/ b.dryrun

\* client.dryRunTransactionBlock
PbSimulate ==
  /\ pb.pc = "simulate"
  /\ net' = Append(net, "dryRunTransactionBlock")
  /\ \/ \E sim \in DryRunResponses :
          pb' = [pb EXCEPT !.sim = sim,
                           !.res = IF SimulateOnly(pb) THEN ProbeResultOf(sim) ELSE pb.res,
                           !.pc = IF SimulateOnly(pb) THEN "returned" ELSE "submit"]
     \/ pb' = [pb EXCEPT !.pc = "threw", !.err = "network"]
  /\ UNCHANGED notPb

\* client.signAndExecuteTransactionBlock
PbSubmit ==
  /\ pb.pc = "submit"
  /\ net' = Append(net, "signAndExecuteTransactionBlock")
  /\ \E r \in ProbeResults : pb' = [pb EXCEPT !.res = r, !.pc = "returned"]
  /\ UNCHANGED notPb

\* the caller probes again (findMaxWithdrawable's next probe, the next registry
\* candidate) with the same entry point and bindings
PbProbeAgain ==
  /\ pb.site \in ProbeSites
  /\ pb.pc \in {"returned", "threw", "skipped"}
  /\ Len(pb.hist) + 1 < MaxProbeCalls
  /\ pb' = [site |-> pb.site, dryrun |-> pb.dryrun, params |-> pb.params,
            ctx |-> pb.ctx,
            hist |-> Append(pb.hist, [pc |-> pb.pc, net |-> net, sim |-> pb.sim,
                                      res |-> pb.res])]
             @@ PbFresh(pb.site)
  /\ net' = <<>>
  /\ UNCHANGED notPb

NextProbe ==
  \/ PbFetchMetadata \/ PbOwnerKind \/ PbAssembleOnly \/ PbBuild \/ PbSimulate
  \/ PbSubmit \/ PbProbeAgain

SpecProbe == InitProbe /\ [][NextProbe]_vars

\* ------------------------------------------------------------------ discovery
\* A qualified name `${module}::${fn}`.toLowerCase() is modelled by the words of
\* its module and of its function name ("_" joins the words of one part, "::"
\* the two parts).
Fn(module, fn, isEntry, params) ==
  [module |-> module, fn |-> fn, isEntry |-> isEntry, params |-> params]

\* String.prototype.includes on one part of the name
PartIncludes(part, phrase) ==
  \E i \in 1..Len(part) :
    i + Len(phrase) - 1 <= Len(part) /\ SubSeq(part, i, i + Len(phrase) - 1) = phrase

\* name.includes(phrase): a phrase without "::" lies within one part
Includes(e, phrase) == PartIncludes(e.module, phrase) \/ PartIncludes(e.fn, phrase)

\* String.prototype.endsWith on the function part (the name's end)
EndsWith(e, suffix) ==
  Len(suffix) <= Len(e.fn) /\
    SubSeq(e.fn, Len(e.fn) - Len(suffix) + 1, Len(e.fn)) = suffix

\* paramTags: the patterns found in JSON.stringify(params)
paramTags(params) ==
  LET found == UNION {params[i] : i \in DOMAIN params} IN
  [hasU64 |-> "U64" \in found,
   wantsVersion |-> "Version" \in found,
   wantsObligation |-> "Obligation" \in found,
   wantsObligationKey |-> "ObligationKey" \in found,
   wantsMarket |-> "Market" \in found,
   wantsClock |-> "Clock" \in found,
   wantsOracle |-> "Oracle" \in found,
   wantsDecimalsRegistry |-> "Registry" \in found]

Plus(cond, n) == IF cond THEN n ELSE 0

\* Mutant of scoreWithdrawEntry: the clock and oracle parameters score too.
scoreCountsEveryTag(e) ==
  LET t == paramTags(e.params) IN
    Plus(Includes(e, <<"withdraw">>), 3)
  + Plus(Includes(e, <<"withdraw", "collateral">>), 5)
  + Plus(EndsWith(e, <<"withdraw">>) \/ EndsWith(e, <<"withdraw", "collateral">>)
           \/ EndsWith(e, <<"withdraw", "collateral", "entry">>), 2)
  + Plus(t.wantsVersion, 1) + Plus(t.wantsObligation, 2)
  + Plus(t.wantsObligationKey, 2) + Plus(t.wantsMarket, 1) + Plus(t.hasU64, 1)
  + Plus(t.wantsDecimalsRegistry, 2) + Plus(t.wantsClock, 1) + Plus(t.wantsOracle, 1)

scoreWithdrawEntry(e) ==
  LET t == paramTags(e.params) IN
    Plus(Includes(e, <<"withdraw">>), 3)
  + Plus(Includes(e, <<"withdraw", "collateral">>), 5)
  + Plus(EndsWith(e, <<"withdraw">>) \/ EndsWith(e, <<"withdraw", "collateral">>)
           \/ EndsWith(e, <<"withdraw", "collateral", "entry">>), 2)
  + Plus(t.wantsVersion, 1) + Plus(t.wantsObligation, 2)
  + Plus(t.wantsObligationKey, 2) + Plus(t.wantsMarket, 1) + Plus(t.hasU64, 1)
  + Plus(t.wantsDecimalsRegistry, 2)

\* listEntriesFromModules: isEntry, or the function name ends in _entry
\* (autoDiscoverRepay: isEntry only)
Listed(script, e) ==
  IF script = "repay" THEN e.isEntry
  ELSE e.isEntry \/ (Len(e.fn) >= 2 /\ EndsWith(e, <<"entry">>))

ActionKeyword(script) == IF script = "repay" THEN <<"repay">> ELSE <<"withdraw">>

\* Mutant of KeptEntry: functions that are not entry functions are kept too.
KeptEntryIgnoresIsEntry(script, e) == Includes(e, ActionKeyword(script))

\* the entries of a listing that discovery keeps
KeptEntry(script, e) == Listed(script, e) /\ Includes(e, ActionKeyword(script))

\* found.push({ pkg, ...e, score, tags })
FoundEntry(script, pkg, e) ==
  [pkg |-> pkg, module |-> e.module, fn |-> e.fn, params |-> e.params,
   score |-> IF script = "repay" THEN 0 ELSE scoreWithdrawEntry(e)]

RECURSIVE KeptOf(_, _, _, _)
KeptOf(script, pkg, listing, k) ==
  IF k > Len(listing) THEN <<>>
  ELSE (IF KeptEntry(script, listing[k])
          THEN <<FoundEntry(script, pkg, listing[k])>> ELSE <<>>)
       \o KeptOf(script, pkg, listing, k + 1)

\* Mutant of InsertByScore: an entry goes before the entries of equal score.
InsertBeforeEqual(sorted, f) ==
  LET before == SelectSeq(sorted, LAMBDA g : g.score > f.score)
      after == SelectSeq(sorted, LAMBDA g : g.score <= f.score)
  IN before \o <<f>> \o after

\* Mutant of InsertByScore: ascending order (a.score - b.score).
InsertAscending(sorted, f) ==
  LET before == SelectSeq(sorted, LAMBDA g : g.score <= f.score)
      after == SelectSeq(sorted, LAMBDA g : g.score > f.score)
  IN before \o <<f>> \o after

\* one insertion of the stable sort by (b.score - a.score)
InsertByScore(sorted, f) ==
  LET before == SelectSeq(sorted, LAMBDA g : g.score >= f.score)
      after == SelectSeq(sorted, LAMBDA g : g.score < f.score)
  IN before \o <<f>> \o after

RECURSIVE SortFrom(_, _, _)
SortFrom(found, k, sorted) ==
  IF k > Len(found) THEN sorted
  ELSE SortFrom(found, k + 1, InsertByScore(sorted, found[k]))

\* found.sort((a,b) => b.score - a.score): Array.prototype.sort is stable
SortByScore(found) == SortFrom(found, 1, <<>>)

\* autoDiscoverRepay: entries.find(module === 'repay' && fn === 'repay') || entries[0]
RepayBest(entries) ==
  LET exact == SelectSeq(entries, LAMBDA f : f.module = <<"repay">> /\ f.fn = <<"repay">>)
  IN IF exact # <<>> THEN exact[1] ELSE entries[1]

\* ------------------------------------------------- discovery: the scan of the packages
NameWords == {"withdraw", "collateral", "entry", "x"}
ModuleNames == {<<"x">>, <<"withdraw">>, <<"withdraw", "collateral">>}
FnNames == SeqsUpTo(NameWords, MaxNameLen) \ {<<>>}

\* a parameter list whose JSON shows exactly the patterns of T
RECURSIVE ParamsFor(_)
ParamsFor(T) ==
  IF T = {} THEN <<>>
  ELSE LET t == CHOOSE x \in T : TRUE IN <<{t}>> \o ParamsFor(T \ {t})

\* every shape of entry the scoring distinguishes
AnyFn ==
  {Fn(m, f, ie, ParamsFor(T)) :
     m \in ModuleNames, f \in FnNames, ie \in BOOLEAN, T \in SUBSET Tags}

\* functions a candidate package of the withdraw scripts may expose
WithdrawFns ==
  { Fn(<<"x">>, <<"withdraw">>, FALSE, <<{"U64"}>>),
    Fn(<<"x">>, <<"withdraw", "collateral">>, TRUE, <<{"ObligationKey"}, {"U64"}>>),
    Fn(<<"withdraw", "collateral">>, <<"x", "entry">>, FALSE,
       <<{"Version"}, {"Obligation"}, {"Market"}, {"Registry"}, {"U64"}>>),
    Fn(<<"x">>, <<"x", "withdraw">>, TRUE,
       <<{"Version"}, {"Obligation"}, {"ObligationKey"}, {"Market"}, {"Registry"}>>) }

\* functions a candidate package of repay.mjs may expose
RepayFns ==
  { Fn(<<"repay">>, <<"repay">>, TRUE, <<{"U64"}>>),
    Fn(<<"repay">>, <<"repay", "x">>, TRUE, <<{"U64"}>>),
    Fn(<<"x">>, <<"repay", "entry">>, FALSE, <<{"U64"}>>),
    Fn(<<"x">>, <<"x">>, TRUE, <<{"U64"}>>) }

Injective(q) == \A i, j \in DOMAIN q : q[i] = q[j] => i = j

\* what the lookups of one candidate id give: the listing of a package, an
\* object that is not a package (ensurePackage throws), or a failing lookup
Package(listing) == [kind |-> "package", listing |-> listing]
NotAPackage == [kind |-> "notpkg", listing |-> <<>>]
LookupError == [kind |-> "error", listing |-> <<>>]

Candidates(fns) ==
  {NotAPackage, LookupError}
    \cup {Package(l) : l \in {q \in SeqsUpTo(fns, MaxListing) : Injective(q)}}

InitDiscover ==
  /\ FindMaxIdle
  /\ ExecIdle
  /\ ProbeIdle
  /\ OwnIdle
  /\ DrainIdle
  /\ PairIdle
  /\ OrcIdle
  /\ RepayIdle
  /\ \E script \in {"wdsui", "wd", "repay"} :
       \E pkgs \in
            SeqsUpTo(Candidates(IF script = "repay" THEN RepayFns ELSE WithdrawFns),
                     MaxPkgs)
              \cup (IF script = "wdsui" THEN {<<Package(<<e>>)>> : e \in AnyFn} ELSE {}) :
       \E ov \in BOOLEAN :
         /\ ov => script # "repay" /\ Len(pkgs) = MaxPkgs
         /\ disc = [script |-> script, pkgs |-> pkgs, k |-> 1, found |-> <<>>,
                    pc |-> "select", ret |-> <<>>, err |-> "",
                    override |-> ov, chosen |-> <<>>, txs |-> {},
                    entries |-> <<>>, sel |-> 0, probed |-> {}, registry |-> "none"]

\* the targets that are not discovered: WITHDRAW_TARGET, and wd.mjs's fallback
\* `${DEFAULT_PKG}::withdraw_collateral::withdraw_collateral_entry`
Target(pkg, module, fn) == [pkg |-> pkg, module |-> module, fn |-> fn]
OverrideTarget == Target(0, <<"custom">>, <<"withdraw">>)
FallbackTarget == Target(-1, <<"withdraw", "collateral">>, <<"withdraw", "collateral", "entry">>)
TargetOf(f) == Target(f.pkg, f.module, f.fn)

\* wd.mjs: chosen = { target: WITHDRAW_TARGET, params: null }, so the test
\* if (!chosen || !chosen.params) is true for an override too, and discovery
\* runs and assigns chosen again
OverrideHasParams(d) == FALSE

\* the choice of the target before discovery: wdsui.mjs takes WITHDRAW_TARGET
\* when set (and fails when the package does not expose it) and discovers
\* otherwise; wd.mjs notes the override; repay.mjs discovers when its
\* configured target cannot be verified
DiscSelect ==
  /\ disc.pc = "select"
  /\ \/ /\ disc.override /\ disc.script = "wdsui"
        /\ \/ disc' = [disc EXCEPT !.pc = "chosen", !.chosen = <<OverrideTarget>>]
           \/ disc' = [disc EXCEPT !.pc = "fatal", !.err = "target not found"]
     \/ /\ disc.override /\ disc.script = "wd"
        /\ disc' = IF OverrideHasParams(disc)
                     THEN [disc EXCEPT !.pc = "chosen", !.chosen = <<OverrideTarget>>]
                     ELSE [disc EXCEPT !.pc = "scan", !.chosen = <<OverrideTarget>>]
     \/ /\ ~disc.override
        /\ disc' = [disc EXCEPT !.pc = "scan"]
  /\ UNCHANGED notDc

\* Mutant of DiscAfterPkg: no try/catch around the lookups of a candidate.
DiscAfterPkgNoCatch(d, c) ==
  IF c.kind = "package"
    THEN [d EXCEPT !.k = @ + 1,
                   !.found = @ \o KeptOf(d.script, d.k, c.listing, 1)]
    ELSE [d EXCEPT !.pc = "failed", !.err = "lookup"]

\* the body of the loop over the candidates: try { ensurePackage; list; push }
\* catch { warn and skip }
DiscAfterPkg(d, c) ==
  IF c.kind = "package"
    THEN [d EXCEPT !.k = @ + 1,
                   !.found = @ \o KeptOf(d.script, d.k, c.listing, 1)]
    ELSE [d EXCEPT !.k = @ + 1]

\* one iteration of for (const pkg of candidatePkgs)
DiscScanPkg ==
  /\ disc.pc = "scan"
  /\ disc.k <= Len(disc.pkgs)
  /\ disc' = DiscAfterPkg(disc, disc.pkgs[disc.k])
  /\ UNCHANGED notDc

\* if (!found.length) throw new Error(...)
DiscNoEntry ==
  /\ disc.pc = "scan"
  /\ disc.k > Len(disc.pkgs)
  /\ disc.found = <<>>
  /\ disc' = [disc EXCEPT !.pc = "failed", !.err = "no entry found"]
  /\ UNCHANGED notDc

\* found.sort(...); return found (wdsui) / found[0] (wd) / the repay::repay
\* entry or entries[0] (repay)
DiscReturn ==
  /\ disc.pc = "scan"
  /\ disc.k > Len(disc.pkgs)
  /\ disc.found # <<>>
  /\ disc' = [disc EXCEPT
                !.pc = "done",
                !.found = IF disc.script = "repay" THEN @ ELSE SortByScore(@),
                !.ret = CASE disc.script = "wdsui" -> SortByScore(disc.found)
                          [] disc.script = "wd" -> <<SortByScore(disc.found)[1]>>
                          [] disc.script = "repay" -> <<RepayBest(disc.found)>>]
  /\ UNCHANGED notDc

\* what the caller does with discovery's answer: wdsui.mjs works with all the
\* entries returned, wd.mjs with the first, or with its fallback target when
\* discovery threw; in wdsui.mjs and repay.mjs the throw ends the script
DiscUse ==
  /\ disc.pc \in {"done", "failed"}
  /\ disc' =
       IF disc.pc = "done"
         THEN [disc EXCEPT !.pc = "chosen",
                           !.chosen = [i \in DOMAIN disc.ret |-> TargetOf(disc.ret[i])]]
       ELSE IF disc.script = "wd"
         THEN [disc EXCEPT !.pc = "chosen", !.chosen = <<FallbackTarget>>]
       ELSE [disc EXCEPT !.pc = "fatal"]
  /\ UNCHANGED notDc

\* wdsui.mjs: allEntries, each with its target, whether it wants the decimals
\* registry (tags.wantsDecimalsRegistry) and its score; the override is one
\* entry of score 999 whose parameters are those of the configured function
AllEntries(d, overrideWantsRegistry) ==
  IF d.override
    THEN <<[target |-> OverrideTarget, reg |-> overrideWantsRegistry, score |-> 999]>>
    ELSE [i \in DOMAIN d.ret |->
            [target |-> TargetOf(d.ret[i]),
             reg |-> paramTags(d.ret[i].params).wantsDecimalsRegistry,
             score |-> d.ret[i].score]]

\* what the registry selection for withReg[0] comes to
RegistryOutcomes == {"working", "best-effort", "rejected", "no-candidates"}

FirstOf(S) == IF S = {} THEN 0 ELSE CHOOSE i \in S : \A j \in S : i <= j
LastOf(S) == IF S = {} THEN 0 ELSE CHOOSE i \in S : \A j \in S : i >= j

\* Mutant of PickEntry: the last entry that wants a registry is taken.
PickEntryLastWithRegistry(es, registry, accepted) ==
  LET withReg == {i \in DOMAIN es : es[i].reg}
      noReg == {i \in DOMAIN es : ~es[i].reg}
  IN  IF withReg # {} /\ registry \in {"working", "best-effort"} THEN LastOf(withReg)
      ELSE FirstOf(noReg \cap accepted)

\* the place in allEntries of the entry that is selected, 0 when there is none:
\* withReg[0] when a registry was picked for it, else the first entry without
\* registry whose probe is accepted
PickEntry(es, registry, accepted) ==
  LET withReg == {i \in DOMAIN es : es[i].reg}
      noReg == {i \in DOMAIN es : ~es[i].reg}
  IN  IF withReg # {} /\ registry \in {"working", "best-effort"} THEN FirstOf(withReg)
      ELSE FirstOf(noReg \cap accepted)

\* the entries a transaction was built for while selecting
ProbedWhilePicking(es, registry, sel) ==
  LET withReg == {i \in DOMAIN es : es[i].reg}
      noReg == {i \in DOMAIN es : ~es[i].reg}
      viaReg == withReg # {} /\ registry \in {"working", "best-effort"}
  IN  (IF withReg # {} /\ registry # "no-candidates" THEN {FirstOf(withReg)} ELSE {})
        \cup (IF viaReg THEN {} ELSE {i \in noReg : sel = 0 \/ i <= sel})

\* wdsui.mjs: the entry is selected among allEntries
DiscPickEntry ==
  /\ disc.pc = "chosen" /\ disc.script = "wdsui"
  /\ \E ovReg \in BOOLEAN, registry \in RegistryOutcomes :
       LET es == AllEntries(disc, ovReg) IN
       /\ ~disc.override => ~ovReg
       /\ (\A i \in DOMAIN es : ~es[i].reg) => registry = "no-candidates"
       /\ \E accepted \in {{}} \cup {{i} : i \in {j \in DOMAIN es : ~es[j].reg}} :
            \* the loop over noReg stops at the first accepted probe
            LET sel == PickEntry(es, registry, accepted) IN
            disc' = [disc EXCEPT !.entries = es, !.registry = registry, !.sel = sel,
                                 !.probed = ProbedWhilePicking(es, registry, sel),
                                 !.pc = IF sel = 0 THEN "fatal" ELSE "picked"]
  /\ UNCHANGED notDc

\* a transaction is assembled for the target in use, to be simulated or
\* submitted (tx.moveCall({ target, ... })): the selected entry in wdsui.mjs,
\* the chosen target in wd.mjs and repay.mjs
DiscTransact ==
  /\ \/ /\ disc.pc = "chosen" /\ disc.script # "wdsui"
        /\ disc.chosen[1] \notin disc.txs
        /\ disc' = [disc EXCEPT !.txs = @ \cup {disc.chosen[1]}]
     \/ /\ disc.pc = "picked"
        /\ disc.entries[disc.sel].target \notin disc.txs
        /\ disc' = [disc EXCEPT !.txs = @ \cup {disc.entries[disc.sel].target}]
  /\ UNCHANGED notDc

NextDiscover ==
  \/ DiscSelect \/ DiscScanPkg \/ DiscNoEntry \/ DiscReturn \/ DiscUse
  \/ DiscPickEntry \/ DiscTransact

SpecDiscover == InitDiscover /\ [][NextDiscover]_vars

\* ------------------------------------------------------------ ownership checks
\* The registry selection of wdsui.mjs and the version/market check of
\* deposit.mjs.  The chain holds one ownership kind per object for the length
\* of a run; a lookup yields that kind, or null when it fails.
RegIds == {"r1", "r2"}
IdOrder == <<"r1", "r2">>
FixedIds == {"VERSION_ID", "MARKET_ID"}
ChainKinds == OwnerKinds \ {"null"}
ObjTypes == {"registry", "lookalike", "other"}

getOwnerKind(o, id) == {o.kinds[id], "null"}

\* the [id, kind] observations of one round of lookups
Seen(obs, ids) == {<<id, obs[id]>> : id \in ids}

SeqRange(q) == {q[i] : i \in DOMAIN q}

InitOwner ==
  /\ FindMaxIdle
  /\ ExecIdle
  /\ ProbeIdle
  /\ DiscIdle
  /\ DrainIdle
  /\ PairIdle
  /\ OrcIdle
  /\ RepayIdle
  /\ \/ \E kinds \in [RegIds -> ChainKinds], types \in [RegIds -> ObjTypes],
           env \in {"none"} \cup RegIds, scanned \in SUBSET RegIds, be \in BOOLEAN :
          own = [script |-> "wdsui", pc |-> "env", kinds |-> kinds, types |-> types,
                 env |-> env, scanned |-> scanned, bestEffort |-> be,
                 cands |-> <<>>, seen |-> {}, warned |-> {},
                 selected |-> "none", mode |-> "none", used |-> {}]
     \/ \E kinds \in [FixedIds -> ChainKinds] :
          own = [script |-> "deposit", pc |-> "check", kinds |-> kinds,
                 types |-> [id \in FixedIds |-> "other"],
                 env |-> "none", scanned |-> {}, bestEffort |-> FALSE,
                 cands |-> <<>>, seen |-> {}, warned |-> {},
                 selected |-> "none", mode |-> "none", used |-> {}]

\* DECIMALS_REGISTRY_ID from the environment: kept only if Shared or Immutable
OwnEnvRegistry ==
  /\ own.script = "wdsui" /\ own.pc = "env"
  /\ IF own.env = "none"
       THEN own' = [own EXCEPT !.pc = "auto"]
       ELSE \E ow \in getOwnerKind(own, own.env) :
              own' = [own EXCEPT
                        !.seen = @ \cup {<<own.env, ow>>},
                        !.warned = IF SharedOrImmutable(ow) THEN @ ELSE @ \cup {own.env},
                        !.cands = IF SharedOrImmutable(ow) THEN <<own.env>> ELSE <<>>,
                        !.pc = IF SharedOrImmutable(ow) THEN "try" ELSE "auto"]
  /\ UNCHANGED notOw

\* the candidate ids in insertion order: the configured id, then the scanned ones
CandidateArr(o) ==
  LET Rest(id) == id \in o.scanned /\ id # o.env
  IN  (IF o.env = "none" THEN <<>> ELSE <<o.env>>) \o SelectSeq(IdOrder, Rest)

\* autoFindRegistryCandidates with the owner kinds obs it looked up
autoFindRegistryCandidates(o, obs) ==
  LET arr == CandidateArr(o)
      Prio(id) == o.types[id] = "registry" /\ SharedOrImmutable(obs[id])
      Look(id) == ~Prio(id) /\ SharedOrImmutable(obs[id])
                    /\ o.types[id] \in {"registry", "lookalike"}
      prioritized == SelectSeq(arr, Prio)
  IN  IF prioritized = <<>> THEN SelectSeq(arr, Look) ELSE prioritized

OwnAutoFind ==
  /\ own.script = "wdsui" /\ own.pc = "auto"
  /\ \E obs \in [RegIds -> OwnerKinds] :
       /\ \A id \in RegIds : obs[id] \in getOwnerKind(own, id)
       /\ LET cs == autoFindRegistryCandidates(own, obs)
          IN  own' = [own EXCEPT
                        !.seen = @ \cup Seen(obs, SeqRange(CandidateArr(own))),
                        !.cands = cs,
                        !.pc = IF cs = <<>> THEN "noreg" ELSE "try"]
  /\ UNCHANGED notOw

\* tryPickWorkingRegistry: the place of the first candidate that is Shared or
\* Immutable and that the dry run accepts, 0 when there is none
tryPickWorkingRegistry(cands, obs, verdict) ==
  LET Works(i) == SharedOrImmutable(obs[cands[i]]) /\ verdict[cands[i]] = "accepted"
      ok == {i \in DOMAIN cands : Works(i)}
  IN  IF ok = {} THEN 0 ELSE CHOOSE i \in ok : \A j \in ok : i <= j

OwnTryPick ==
  /\ own.script = "wdsui" /\ own.pc = "try"
  /\ \E obs \in [RegIds -> OwnerKinds], verdict \in [RegIds -> {"accepted", "rejected"}] :
       /\ \A id \in RegIds : obs[id] \in getOwnerKind(own, id)
       /\ LET w == tryPickWorkingRegistry(own.cands, obs, verdict)
              tried == IF w = 0 THEN SeqRange(own.cands)
                                ELSE {own.cands[i] : i \in 1..w}
          IN  own' = [own EXCEPT
                        !.seen = @ \cup Seen(obs, tried),
                        !.selected = IF w # 0 THEN own.cands[w]
                                     ELSE IF own.bestEffort THEN own.cands[1] ELSE "none",
                        !.mode = IF w # 0 THEN "working"
                                 ELSE IF own.bestEffort THEN "best-effort" ELSE "none",
                        !.pc = IF w # 0 \/ own.bestEffort THEN "run" ELSE "noreg"]
  /\ UNCHANGED notOw

\* no registry was selected: an entry that takes none is probed, or the run ends
OwnNoReg ==
  /\ own.script = "wdsui" /\ own.pc = "noreg"
  /\ \E accepted \in BOOLEAN :
       own' = [own EXCEPT !.mode = IF accepted THEN "noreg" ELSE "none",
                          !.pc = IF accepted THEN "run" ELSE "fatal"]
  /\ UNCHANGED notOw

\* runOnce assembles the transaction with the selected registry
OwnRunOnce ==
  /\ own.script = "wdsui" /\ own.pc = "run"
  /\ own' = [own EXCEPT !.used = IF own.selected = "none" THEN {} ELSE {own.selected},
                        !.pc = "done"]
  /\ UNCHANGED notOw

\* checkShared on VERSION_ID and MARKET_ID: a warning, errors swallowed
checkShared(kind) == IF kind = "Shared" \/ kind = "null" THEN "quiet" ELSE "warned"

OwnCheckShared ==
  /\ own.script = "deposit" /\ own.pc = "check"
  /\ \E obs \in [FixedIds -> OwnerKinds] :
       /\ \A id \in FixedIds : obs[id] \in getOwnerKind(own, id)
       /\ own' = [own EXCEPT
                    !.seen = @ \cup Seen(obs, FixedIds),
                    !.warned = {id \in FixedIds : checkShared(obs[id]) = "warned"},
                    !.pc = "deposit"]
  /\ UNCHANGED notOw

\* the deposit attempt: version and market go into the transaction
OwnDeposit ==
  /\ own.script = "deposit" /\ own.pc = "deposit"
  /\ \E funded \in BOOLEAN :
       own' = [own EXCEPT !.used = IF funded THEN FixedIds ELSE {},
                          !.pc = IF funded THEN "done" ELSE "fatal"]
  /\ UNCHANGED notOw

NextOwner ==
  \/ OwnEnvRegistry
  \/ OwnAutoFind
  \/ OwnTryPick
  \/ OwnNoReg
  \/ OwnRunOnce
  \/ OwnCheckShared
  \/ OwnDeposit

SpecOwner == InitOwner /\ [][NextOwner]_vars

\* ------------------------------------------------------------ drain mode
\* wdsui.mjs from the choice of the first amount to the end of the drain loop.
\* The chain lets an amount through when it is at most avail.
MaxDust == 2
MaxCycles == 3
MaxDesired == 2

\* the dry runs findMaxWithdrawable is answered with
ChainOracle(avail) ==
  [a \in 1..MaxAmt |-> IF a <= avail THEN SimOk ELSE SimFail({"insufficient"})]

\* the available balance between two cycles: as it was, or lower
Shift(avail) == {a \in 0..MaxAmt : avail - a \in {0, 1}}

\* attemptWithBackoff(amountRaw) at its first iteration
AttemptStart(d, amountRaw) ==
  [script |-> "wdsui", maxRetry |-> d.maxRetry, dryrun |-> d.dryrun, i |-> 1,
   amount |-> amountRaw, pc |-> "loop", result |-> "none", lastErr |-> <<>>]

NoAttempt == [pc |-> "none", result |-> "none"]

\* WITHDRAW_MODE; WITHDRAW_PERCENT (already clamped to 1..100)
Modes == {"amount", "percent", "all"}
Percents == {1, 50, 100}

\* pick.available when it is null
NullAvailable == -1

\* initial amount target: WITHDRAW_AMOUNT, the percentage of the available
\* balance (at least 1), or the available balance; never above a known balance
InitialDesired(mode, amountCfg, pct, available) ==
  LET share == (available * pct) \div 100
      desired ==
        IF mode = "percent" THEN
          IF available = NullAvailable THEN amountCfg
          ELSE IF share = 0 THEN 1 ELSE share
        ELSE IF mode = "all" THEN
          IF available = NullAvailable THEN 0 ELSE available
        ELSE amountCfg
  IN IF available # NullAvailable /\ desired > available THEN available ELSE desired

\* Mutant of NeedsFindMax: a desired amount of 0 is executed as it is.
NeedsFindMaxUnlessAmount(mode, amountNow, available) ==
  mode = "all" \/ (mode = "percent" /\ available = NullAvailable)

\* decide final amount: when findMaxWithdrawable is asked for it
NeedsFindMax(mode, amountNow, available) ==
  \/ amountNow = 0
  \/ mode = "all"
  \/ mode = "percent" /\ available = NullAvailable

\* drain loop if requested
DrainWanted(d) == d.drain \/ d.mode = "all" \/ (d.mode = "percent" /\ d.pct = 100)

\* the state at the amount decision, for one configuration
DrainStart(mode, amountCfg, pct, available, avail, dust, mr, dry, drain) ==
  [pc |-> "amount", drain |-> drain, mode |-> mode, pct |-> pct,
   available |-> available,
   desired |-> InitialDesired(mode, amountCfg, pct, available), dust |-> dust,
   avail |-> avail, maxRetry |-> mr, dryrun |-> dry,
   e |-> NoAttempt, cycles |-> <<>>]

\* one find-max-then-execute cycle: where it sits, what findMax returned (when
\* it was called), the amounts submitted, how the execution ended
Cycle(kind, probed, max) ==
  [kind |-> kind, probed |-> probed, max |-> max, subs |-> <<>>, ok |-> "none"]

InitDrain ==
  /\ FindMaxIdle
  /\ ExecIdle
  /\ ProbeIdle
  /\ DiscIdle
  /\ OwnIdle
  /\ PairIdle
  /\ OrcIdle
  /\ RepayIdle
  /\ \E avail \in 0..MaxAmt, dust \in 0..MaxDust, mr \in {0, MaxRetryCfg},
        dry \in BOOLEAN, drain \in BOOLEAN, amountCfg \in {0, MaxDesired} :
       drn = DrainStart("amount", amountCfg, 50, NullAvailable, avail, dust, mr, dry, drain)

\* Mutant of DrainStops: the loop has no exit test.
DrainNeverStops(nextMax, dust) == FALSE

\* Mutant of DrainStops: the loop only stops at 0.
DrainStopsAtZero(nextMax, dust) == nextMax = 0

\* if (nextMax === 0n || nextMax <= DRAIN_MIN_DUST) break
DrainStops(nextMax, dust) == nextMax = 0 \/ nextMax <= dust

\* decide final amount: the desired one, or findMaxWithdrawable's when there is none
DrFirstAmount ==
  /\ drn.pc = "amount"
  /\ IF NeedsFindMax(drn.mode, drn.desired, drn.available)
       THEN \E a \in Shift(drn.avail) :
              LET amountNow == findMaxWithdrawable(ChainOracle(a), 1, MaxCap) IN
              drn' = [drn EXCEPT
                        !.avail = a,
                        !.cycles = <<Cycle("first", TRUE, amountNow)>>,
                        !.e = IF amountNow = 0 THEN NoAttempt
                                               ELSE AttemptStart(drn, amountNow),
                        !.pc = IF amountNow = 0 THEN "fatal" ELSE "first"]
       ELSE drn' = [drn EXCEPT
                      !.cycles = <<Cycle("first", FALSE, 0)>>,
                      !.e = AttemptStart(drn, drn.desired),
                      !.pc = "first"]
  /\ UNCHANGED notDr

\* what runOnce can do at an amount against the chain
RunOutcomes(d) ==
  {r \in (IF d.dryrun THEN DryOutcomes ELSE ExecOutcomes) : r.ok => d.e.amount <= d.avail}

LogSubmit(cycles, r, amount) ==
  IF r.kind = "submit"
    THEN [cycles EXCEPT ![Len(cycles)].subs = Append(@, amount)]
    ELSE cycles

\* one runOnce(amountRaw) inside attemptWithBackoff
DrAttempt ==
  /\ drn.pc \in {"first", "cycle"}
  /\ drn.e.pc = "loop" /\ drn.e.i <= AttemptLimit(drn.e)
  /\ \E r \in RunOutcomes(drn) :
       drn' = [drn EXCEPT
                 !.e = WdsuiStep(drn.e, r),
                 !.cycles = LogSubmit(drn.cycles, r, drn.e.amount),
                 !.avail = IF r.kind = "submit" /\ r.ok THEN @ - drn.e.amount ELSE @]
  /\ UNCHANGED notDr

\* await sleep(RETRY_WAIT_MS); continue
DrBackoff ==
  /\ drn.pc \in {"first", "cycle"}
  /\ drn.e.pc = "sleep"
  /\ drn' = [drn EXCEPT !.e = [drn.e EXCEPT !.pc = "loop", !.i = drn.e.i + 1]]
  /\ UNCHANGED notDr

\* the loop of attemptWithBackoff runs out: return false
DrExhausted ==
  /\ drn.pc \in {"first", "cycle"}
  /\ drn.e.pc = "loop" /\ drn.e.i > AttemptLimit(drn.e)
  /\ drn' = [drn EXCEPT !.e = Finish(drn.e, "fail")]
  /\ UNCHANGED notDr

EndCycle(cycles, res) == [cycles EXCEPT ![Len(cycles)].ok = res]

\* the record of the cycles keeps the first one and the last MaxCycles - 1
\* cycles of the drain loop (the loop itself has no bound)
Remember(cycles, c) ==
  IF Len(cycles) < MaxCycles THEN Append(cycles, c)
  ELSE <<cycles[1]>> \o SubSeq(cycles, 3, Len(cycles)) \o <<c>>

\* after the first attemptWithBackoff: exit(1), the drain loop, or exit(0)
DrAfterFirst ==
  /\ drn.pc = "first" /\ drn.e.pc = "done"
  /\ drn' = [drn EXCEPT
               !.cycles = EndCycle(@, drn.e.result),
               !.e = NoAttempt,
               !.pc = IF drn.e.result # "success" THEN "fatal"
                      ELSE IF DrainWanted(drn) THEN "find" ELSE "done"]
  /\ UNCHANGED notDr

\* the head of the drain loop: findMaxWithdrawable and the dust test
DrFind ==
  /\ drn.pc = "find"
  /\ \E a \in Shift(drn.avail) :
       LET nextMax == findMaxWithdrawable(ChainOracle(a), 1, MaxCap) IN
       drn' = [drn EXCEPT
                 !.avail = a,
                 !.cycles = Remember(@, Cycle("drain", TRUE, nextMax)),
                 !.e = IF DrainStops(nextMax, drn.dust) THEN NoAttempt
                                                        ELSE AttemptStart(drn, nextMax),
                 !.pc = IF DrainStops(nextMax, drn.dust) THEN "done" ELSE "cycle"]
  /\ UNCHANGED notDr

\* the tail of the drain loop: stop when the execution failed
DrAfterCycle ==
  /\ drn.pc = "cycle" /\ drn.e.pc = "done"
  /\ drn' = [drn EXCEPT
               !.cycles = EndCycle(@, drn.e.result),
               !.e = NoAttempt,
               !.pc = IF drn.e.result = "success" THEN "find" ELSE "done"]
  /\ UNCHANGED notDr

NextDrain ==
  \/ DrFirstAmount
  \/ DrAttempt
  \/ DrBackoff
  \/ DrExhausted
  \/ DrAfterFirst
  \/ DrFind
  \/ DrAfterCycle

SpecDrain == InitDrain /\ [][NextDrain]_vars

\* runs that enter the drain loop: DRAIN set, no amount configured, the
\* retry count at its bound; the script runs on, each of its steps is
\* taken when it can be
InitDrainLoop ==
  /\ FindMaxIdle
  /\ ExecIdle
  /\ ProbeIdle
  /\ DiscIdle
  /\ OwnIdle
  /\ PairIdle
  /\ OrcIdle
  /\ RepayIdle
  /\ \E avail \in {0, 1, MaxCap}, dust \in {0, MaxDust}, dry \in BOOLEAN :
       drn = DrainStart("amount", 0, 50, NullAvailable, avail, dust, MaxRetryCfg, dry, TRUE)

SpecDrainLoop == InitDrainLoop /\ [][NextDrain]_vars

FairDrainLoop == SpecDrainLoop /\ WF_vars(NextDrain)

\* the same run over the modes and the balances read: dust at its default 0,
\* the balance read null, what the chain lets through, or more than that
InitAmount ==
  /\ FindMaxIdle
  /\ ExecIdle
  /\ ProbeIdle
  /\ DiscIdle
  /\ OwnIdle
  /\ PairIdle
  /\ OrcIdle
  /\ RepayIdle
  /\ \E mode \in Modes, amountCfg \in {0, MaxDesired}, pct \in Percents,
        avail \in 0..MaxAmt, mr \in {0, MaxRetryCfg}, dry \in BOOLEAN,
        drain \in BOOLEAN :
       \E available \in {NullAvailable, avail, MaxAmt} :
         /\ mode # "amount" => amountCfg = MaxDesired
         /\ mode # "percent" => pct = 50
         /\ drn = DrainStart(mode, amountCfg, pct, available, avail, 0, mr, dry, drain)

SpecAmount == InitAmount /\ [][NextDrain]_vars

\* ------------------------------- the ObligationKey / Obligation pair of a run
\* borrow.mjs and wd.mjs: findKeyAndObligation; wdsui.mjs:
\* pickObligationWithAssetCollateral.  Ids are modelled by short names.
KeyIds == {"k1", "k2"}
OblIds == {"o1", "o2"}
\* an id given as OBLIGATION_KEY_ID that is no object on chain
AbsentKey == "k9"
MaxCollateral == 1
PairScripts == {"borrow", "wd", "wdsui"}

\* an ObligationKey on chain: its owner, and content.fields.ownership.fields.of
\* ("" when the field is absent)
KeyObjects == [owner : {"sender", "other"}, of : OblIds \cup {""}]

\* getOwnedObjects: the sender's keys, each once, in the order the node (or,
\* for wdsui.mjs, the sort by version) gives them
OwnedListings(chain) ==
  LET mine == {k \in KeyIds : chain[k].owner = "sender"}
  IN {w \in UNION {[1..n -> KeyIds] : n \in 0..Cardinality(KeyIds)} :
        /\ {w[i] : i \in DOMAIN w} = mine
        /\ Len(w) = Cardinality(mine)}

PairFound(k, o, a) == [ok |-> TRUE, keyId |-> k, obligationId |-> o, available |-> a]
PairThrows(msg) == [ok |-> FALSE, err |-> msg]

\* the first index of w whose element satisfies Test, 0 when there is none (Array.find)
FindIndex(w, Test(_)) ==
  LET hits == {i \in DOMAIN w : Test(w[i])}
  IN IF hits = {} THEN 0 ELSE CHOOSE i \in hits : \A j \in hits : i <= j

\* findKeyAndObligation of borrow.mjs and of wd.mjs (the same code but for the
\* dead warning of borrow.mjs): data is the getOwnedObjects result
findKeyAndObligation(chain, data, envKey, envObl) ==
  IF envKey # "" THEN
    IF envKey \notin DOMAIN chain THEN PairThrows("OBLIGATION_KEY_ID invalid")
    ELSE IF chain[envKey].owner # "sender" THEN PairThrows("OBLIGATION_KEY_ID not owned by sender")
    ELSE IF chain[envKey].of = "" THEN PairThrows("no ownership.of")
    ELSE PairFound(envKey, IF envObl # "" THEN envObl ELSE chain[envKey].of, NullAvailable)
  ELSE IF data = <<>> THEN PairThrows("no ObligationKey")
  ELSE
    LET found == IF envObl = "" THEN 0
                 ELSE FindIndex(data, LAMBDA k : chain[k].of = envObl)
    IN IF found # 0 THEN PairFound(data[found], envObl, NullAvailable)
       ELSE IF chain[data[1]].of = "" THEN PairThrows("no ownership.of")
       ELSE PairFound(data[1], chain[data[1]].of, NullAvailable)

\* getAllObligationKeys: the listed keys that have an id and an ownership.of
getAllObligationKeys(chain, data) == SelectSeq(data, LAMBDA k : chain[k].of # "")

\* the scan of pickObligationWithAssetCollateral: among the first i keys, the
\* first one whose obligation holds the largest collateral of the asset (0
\* when none holds any); collat[o] is -1 when o has no collateral of the asset
RECURSIVE ScanChosen(_, _, _, _)
ScanChosen(chain, keys, collat, i) ==
  IF i = 0 THEN 0
  ELSE LET chosen == ScanChosen(chain, keys, collat, i - 1)
           now == collat[chain[keys[i]].of]
       IN IF now >= 0 /\ (chosen = 0 \/ now > collat[chain[keys[chosen]].of])
          THEN i ELSE chosen

pickObligationWithAssetCollateral(chain, data, collat, envKey, envObl) ==
  LET keys == getAllObligationKeys(chain, data)
      found == FindIndex(keys, LAMBDA k : k = envKey)
      match == FindIndex(keys, LAMBDA k : chain[k].of = envObl)
      chosen == ScanChosen(chain, keys, collat, Len(keys))
  IN IF envKey # "" /\ envObl # "" THEN PairFound(envKey, envObl, NullAvailable)
     ELSE IF keys = <<>> THEN PairThrows("no ObligationKey")
     ELSE IF envKey # "" THEN
       IF found = 0 THEN PairThrows("OBLIGATION_KEY_ID not in wallet")
       ELSE PairFound(keys[found], chain[keys[found]].of, NullAvailable)
     ELSE IF envObl # "" /\ match # 0 THEN
       PairFound(keys[match], chain[keys[match]].of, NullAvailable)
     ELSE IF chosen # 0 THEN
       PairFound(keys[chosen], chain[keys[chosen]].of, collat[chain[keys[chosen]].of])
     ELSE PairFound(keys[1], chain[keys[1]].of, NullAvailable)

InitPair ==
  /\ FindMaxIdle
  /\ ExecIdle
  /\ ProbeIdle
  /\ DiscIdle
  /\ OwnIdle
  /\ DrainIdle
  /\ OrcIdle
  /\ RepayIdle
  /\ \E script \in PairScripts, chain \in [KeyIds -> KeyObjects],
        envKey \in KeyIds \cup {"", AbsentKey}, envObl \in OblIds \cup {""},
        collat \in [OblIds -> -1..MaxCollateral] :
       /\ script # "wdsui" => collat = [o \in OblIds |-> -1]
       /\ \E data \in OwnedListings(chain) :
            pair = [pc |-> "start", script |-> script, chain |-> chain, data |-> data,
                    collat |-> collat, envKey |-> envKey, envObl |-> envObl]

\* borrow.mjs, wd.mjs: main calls findKeyAndObligation
PairFind ==
  /\ pair.pc = "start" /\ pair.script \in {"borrow", "wd"}
  /\ LET r == findKeyAndObligation(pair.chain, pair.data, pair.envKey, pair.envObl)
     IN pair' = [pc |-> IF r.ok THEN "found" ELSE "fatal", script |-> pair.script,
                 chain |-> pair.chain, data |-> pair.data, collat |-> pair.collat,
                 envKey |-> pair.envKey, envObl |-> pair.envObl, res |-> r]
  /\ UNCHANGED notPr

\* wdsui.mjs: main calls pickObligationWithAssetCollateral
PairPick ==
  /\ pair.pc = "start" /\ pair.script = "wdsui"
  /\ LET r == pickObligationWithAssetCollateral(pair.chain, pair.data, pair.collat,
                                                pair.envKey, pair.envObl)
     IN pair' = [pc |-> IF r.ok THEN "found" ELSE "fatal", script |-> pair.script,
                 chain |-> pair.chain, data |-> pair.data, collat |-> pair.collat,
                 envKey |-> pair.envKey, envObl |-> pair.envObl, res |-> r]
  /\ UNCHANGED notPr

\* the transaction of the run is built with the pair: tx.object(obligationId),
\* tx.object(obligationKeyId)
PairBuild ==
  /\ pair.pc = "found"
  /\ pair' = [pc |-> "built", script |-> pair.script, chain |-> pair.chain,
              data |-> pair.data, collat |-> pair.collat, envKey |-> pair.envKey,
              envObl |-> pair.envObl, res |-> pair.res,
              tx |-> [obligation |-> pair.res.obligationId, key |-> pair.res.keyId]]
  /\ UNCHANGED notPr

NextPair ==
  \/ PairFind
  \/ PairPick
  \/ PairBuild

SpecPair == InitPair /\ [][NextPair]_vars

\* --------------------------------------------- the multi-account orchestrator
\* auto.mjs: runAllAccounts and runForAccount, with DAILY_ENSURE_TX set.  An
\* account is its index in ACCOUNTS; the state file is the set of the
\* (account, phase) pairs marked done for today.
MaxAccounts == 3
MaxParallel == 2

\* PHASES_CFG, and those of DAILY_PHASES among them
Phases == <<"swap", "deposit">>
DailyPhases == {"swap"}

\* what runPhase can return: res.ok and whether res.repsSuccess > 0; or an
\* error that leaves runForAccount (fs.writeFileSync of saveState, ...)
PhaseResults ==
  {[ok |-> TRUE, some |-> TRUE, throws |-> FALSE],
   [ok |-> TRUE, some |-> FALSE, throws |-> FALSE],
   [ok |-> FALSE, some |-> TRUE, throws |-> FALSE],
   [ok |-> FALSE, some |-> FALSE, throws |-> FALSE],
   [ok |-> FALSE, some |-> FALSE, throws |-> TRUE]}

\* Mutant of Concurrency: accounts with keys do not force one worker.
ConcurrencyIgnoresKeys(hasKeys, parallelism) == MaxOf(1, parallelism)

\* const concurrency = hasKeys ? 1 : Math.max(1, PARALLELISM)
Concurrency(hasKeys, parallelism) == IF hasKeys THEN 1 ELSE MaxOf(1, parallelism)

WorkerAtLoop == [pc |-> "loop", acc |-> 0, ph |-> 0, st |-> {}]

InitOrc ==
  /\ FindMaxIdle
  /\ ExecIdle
  /\ ProbeIdle
  /\ DiscIdle
  /\ OwnIdle
  /\ DrainIdle
  /\ PairIdle
  /\ RepayIdle
  /\ \E n \in 1..MaxAccounts, parallelism \in 0..MaxParallel, stop \in BOOLEAN :
       \E keys \in [1..n -> BOOLEAN] :
         LET hasKeys == \E a \in 1..n : keys[a] IN
         orc = [pc |-> "run", n |-> n, keys |-> keys, parallelism |-> parallelism,
                stopOnFail |-> stop,
                q |-> [i \in 1..n |-> i],
                w |-> [i \in 1..Concurrency(hasKeys, parallelism) |-> WorkerAtLoop],
                file |-> {}, earned |-> {},
                ran |-> [a \in 1..n |-> 0], fatal |-> {}]

\* q.shift(): the queue after it
TakeAccount(q) == Tail(q)

\* worker: const acc = q.shift(); then runForAccount up to its first await
\* (const st = loadState())
OrcTake(i) ==
  /\ orc.pc = "run" /\ orc.w[i].pc = "loop" /\ orc.q # <<>>
  /\ orc' = [orc EXCEPT
               !.q = TakeAccount(orc.q),
               !.ran[Head(orc.q)] = MinOf(@ + 1, 2),
               !.w[i] = [pc |-> "phase", acc |-> Head(orc.q), ph |-> 1, st |-> orc.file]]
  /\ UNCHANGED notOr

\* worker: if (!acc) break
OrcWorkerEnds(i) ==
  /\ orc.pc = "run" /\ orc.w[i].pc = "loop" /\ orc.q = <<>>
  /\ orc' = [orc EXCEPT !.w[i].pc = "ended"]
  /\ UNCHANGED notOr

\* runForAccount: await runPhase(...) returns, then everything up to the next
\* await: markDailyDone(st) and saveState(st), STOP_ON_FAIL, the next phase
OrcPhase(i) ==
  /\ orc.pc = "run" /\ orc.w[i].pc = "phase"
  /\ \E res \in PhaseResults :
       LET me == orc.w[i]
           ph == Phases[me.ph]
           marks == res.some /\ ph \in DailyPhases
           st == IF marks THEN me.st \cup {<<me.acc, ph>>} ELSE me.st
           file == IF marks THEN st ELSE orc.file
           earned == IF marks THEN orc.earned \cup {<<me.acc, ph>>} ELSE orc.earned
       IN IF res.throws
            THEN orc' = [orc EXCEPT !.w[i] = WorkerAtLoop, !.fatal = @ \cup {me.acc}]
          ELSE IF ~res.ok /\ orc.stopOnFail
            THEN orc' = [orc EXCEPT !.pc = "exited", !.file = file, !.earned = earned,
                                    !.w[i].st = st]
          ELSE IF me.ph < Len(Phases)
            THEN orc' = [orc EXCEPT !.file = file, !.earned = earned,
                                    !.w[i].st = st, !.w[i].ph = me.ph + 1]
          ELSE orc' = [orc EXCEPT !.file = file, !.earned = earned, !.w[i] = WorkerAtLoop]
  /\ UNCHANGED notOr

\* await Promise.all(workers)
OrcAllDone ==
  /\ orc.pc = "run"
  /\ \A i \in DOMAIN orc.w : orc.w[i].pc = "ended"
  /\ orc' = [orc EXCEPT !.pc = "finished"]
  /\ UNCHANGED notOr

NextOrc ==
  \/ \E i \in DOMAIN orc.w : OrcTake(i)
  \/ \E i \in DOMAIN orc.w : OrcWorkerEnds(i)
  \/ \E i \in DOMAIN orc.w : OrcPhase(i)
  \/ OrcAllDone

SpecOrc == InitOrc /\ [][NextOrc]_vars

\* ------------------------------------------------------------ claims C9, C10
\* the role the priority order of the pattern tests gives a parameter
Role(p) ==
  IF "Version" \in p THEN "Version"
  ELSE IF "Obligation" \in p THEN "Obligation"
  ELSE IF "ObligationKey" \in p THEN "ObligationKey"
  ELSE IF "Market" \in p THEN "Market"
  ELSE IF "Registry" \in p THEN "CoinDecimalsRegistry"
  ELSE IF "U64" \in p THEN "u64 amount"
  ELSE IF "Oracle" \in p THEN "Oracle"
  ELSE IF "Clock" \in p THEN "Clock"
  ELSE "Unrecognized"

Recognized(p) == Role(p) # "Unrecognized"

\* the parameter's role needs a value the bindings do not hold
Unbound(p, ctx) ==
  \/ Role(p) = "ObligationKey" /\ ctx.obligationKeyId = ""
  \/ Role(p) = "CoinDecimalsRegistry" /\ ctx.DECIMALS_REGISTRY_ID = ""
  \/ Role(p) = "u64 amount" /\ ctx.amountRaw = <<>>

\* the argument a bound role resolves to
ExpectedArg(p, ctx) ==
  CASE Role(p) = "Version" -> ObjectArg("VERSION_ID")
    [] Role(p) = "Obligation" -> ObjectArg("obligationId")
    [] Role(p) = "ObligationKey" -> ObjectArg(ctx.obligationKeyId)
    [] Role(p) = "Market" -> ObjectArg("MARKET_ID")
    [] Role(p) = "CoinDecimalsRegistry" -> ObjectArg(ctx.DECIMALS_REGISTRY_ID)
    [] Role(p) = "u64 amount" -> U64Arg(ctx.amountRaw[1])
    [] Role(p) = "Oracle" -> ObjectArg("X_ORACLE_ID")
    [] Role(p) = "Clock" -> ObjectArg("CLOCK_ID")

SetMin(S) == CHOOSE x \in S : \A y \in S : x <= y

UnboundAt(params, ctx) == {i \in 1..Len(params) : Unbound(params[i], ctx)}

\* buildWithdrawArgs has run for the transaction
Assembled == pb.pc # "idle" /\ pb.site \in MatcherSites /\ pb.tx # <<>>

\* C9 as stated: buildWithdrawArgs returns exactly one argument per parameter,
\* in parameter order (never a shorter or longer list, Unrecognized parameters
\* included), or fails with an error naming the missing role.
C9_OneArgumentPerParameter ==
  Assembled =>
    IF pb.built.ok
    THEN /\ Len(pb.built.args) = Len(pb.params)
         /\ UnboundAt(pb.params, pb.ctx) = {}
    ELSE \E i \in UnboundAt(pb.params, pb.ctx) : pb.built.err = Role(pb.params[i])

\* C9 as amended: buildWithdrawArgs returns exactly one argument per RECOGNIZED
\* parameter, in parameter order, and none for an Unrecognized one (the list is
\* shorter than the parameter list by the number of Unrecognized parameters,
\* never longer); or it fails, returning nothing, with the error naming the
\* role of the first parameter whose value is missing.
C9_OneArgumentPerRecognizedParameter ==
  Assembled =>
    LET rec == SelectSeq(pb.params, Recognized)
        miss == UnboundAt(pb.params, pb.ctx)
    IN IF miss = {}
       THEN /\ pb.built.ok
            /\ Len(pb.built.args) = Len(rec)
            /\ Len(pb.built.args) <= Len(pb.params)
            /\ \A i \in 1..Len(rec) : pb.built.args[i] = ExpectedArg(rec[i], pb.ctx)
       ELSE /\ ~pb.built.ok
            /\ pb.built.args = <<>>
            /\ pb.built.err = Role(pb.params[SetMin(miss)])

\* two parameters, the second Unrecognized (TxContext): one argument comes back
C9_Witness ==
  /\ Assembled
  /\ pb.params = <<{"U64"}, {}>>
  /\ pb.built.ok
  /\ pb.built.args = <<U64Arg(1)>>

\* a parameter classified ObligationKey while no key is bound
CapabilityNeeded ==
  /\ pb.pc # "idle"
  /\ pb.ctx.obligationKeyId = ""
  /\ \E i \in 1..Len(pb.params) : Role(pb.params[i]) = "ObligationKey"

\* C10 as stated: with an ObligationKey parameter and no key bound, building
\* the arguments fails with the missing-capability error, the argument is
\* never omitted, and no network call (metadata fetch, simulate or submit) has
\* been made for the transaction when it fails.
C10_FailsBeforeAnyNetworkCall ==
  (CapabilityNeeded /\ Assembled) =>
    /\ ~pb.built.ok
    /\ pb.built.err \in {"ObligationKey", "CoinDecimalsRegistry", "u64 amount"}
    /\ net = <<>>

\* C10 as amended: with an ObligationKey parameter and no key bound, building
\* the arguments fails (with the missing-capability error, unless an earlier
\* parameter's registry or amount is missing too and fails first), no argument
\* list is returned and no call is added to the transaction, and the
\* transaction is never built, simulated or submitted; one lookup has already
\* been made when the build fails, and it is the only network call: in
\* probeEntry and runOnce the metadata fetch that supplies the parameter list,
\* in tryPickWorkingRegistry the owner lookup of the candidate.
C10_FailsBeforeBuildSimulateSubmit ==
  CapabilityNeeded =>
    /\ pb.pc \in {"fetch", "args", "owner", "skipped", "threw"}
    /\ net \in {<<>>, <<"getNormalizedMoveModulesByPackage">>, <<"getObject">>}
    /\ Assembled =>
         LET first == SetMin({i \in 1..Len(pb.params) :
                               Role(pb.params[i]) = "ObligationKey"})
         IN /\ ~pb.built.ok
            /\ pb.built.args = <<>>
            /\ pb.tx = OracleRefresh
            /\ pb.pc = "threw"
            /\ (pb.built.err = "ObligationKey") <=>
                 (\A j \in 1..(first - 1) : ~Unbound(pb.params[j], pb.ctx))
            /\ pb.built.err # "ObligationKey" =>
                 pb.built.err = Role(pb.params[SetMin(UnboundAt(pb.params, pb.ctx))])
            /\ net = CASE pb.site = "wdLoop" -> <<>>
                       [] pb.site = "tryPickWorkingRegistry" -> <<"getObject">>
                       [] OTHER -> <<"getNormalizedMoveModulesByPackage">>

\* probeEntry fetched the metadata, then the build threw for the missing key
C10_Witness ==
  /\ pb.pc = "threw"
  /\ pb.site = "probeEntry"
  /\ pb.params = <<{"Version"}, {"ObligationKey"}>>
  /\ pb.ctx.obligationKeyId = ""
  /\ pb.built.err = "ObligationKey"
  /\ net = <<"getNormalizedMoveModulesByPackage">>

\* ------------------------------------------------------------ claims C11..C13
WithdrawDiscovery == disc.pc # "idle" /\ disc.script \in {"wdsui", "wd"}

\* a function that discovery is to keep: an entry function (for the withdraw
\* scripts also a function whose name ends in _entry) whose qualified name
\* contains the action keyword
IsMatch(script, e) ==
  /\ e.isEntry \/ (script # "repay" /\ Len(e.fn) >= 2 /\ e.fn[Len(e.fn)] = "entry")
  /\ LET kw == IF script = "repay" THEN "repay" ELSE "withdraw" IN
     (\E i \in DOMAIN e.module : e.module[i] = kw) \/ (\E i \in DOMAIN e.fn : e.fn[i] = kw)

\* the matches of the candidate packages, as (package, position in its listing)
MatchPlaces ==
  {<<k, i>> \in (1..Len(disc.pkgs)) \X (1..MaxListing + 1) :
     /\ disc.pkgs[k].kind = "package"
     /\ i <= Len(disc.pkgs[k].listing)
     /\ IsMatch(disc.script, disc.pkgs[k].listing[i])}

\* where a found entry was discovered
PlaceOf(f) ==
  <<f.pkg, CHOOSE i \in DOMAIN disc.pkgs[f.pkg].listing :
             /\ disc.pkgs[f.pkg].listing[i].module = f.module
             /\ disc.pkgs[f.pkg].listing[i].fn = f.fn>>

DiscoveredBefore(f, g) ==
  \/ PlaceOf(f)[1] < PlaceOf(g)[1]
  \/ PlaceOf(f)[1] = PlaceOf(g)[1] /\ PlaceOf(f)[2] < PlaceOf(g)[2]

\* the returned entries are the matches, by non-increasing score, ties in
\* discovery order; wd.mjs selects the first
RankedByScore ==
  (WithdrawDiscovery /\ disc.pc = "done") =>
    LET r == disc.found IN
    /\ {PlaceOf(r[i]) : i \in DOMAIN r} = MatchPlaces
    /\ Len(r) = Cardinality(MatchPlaces)
    /\ \A i, j \in DOMAIN r :
         i < j => /\ r[i].score >= r[j].score
                  /\ r[i].score = r[j].score => DiscoveredBefore(r[i], r[j])
    /\ disc.ret = IF disc.script = "wd" THEN <<r[1]>> ELSE r

\* a found entry that is a function named withdraw_collateral with a
\* position-capability parameter
IsCapabilityWithdraw(f) ==
  /\ f.fn = <<"withdraw", "collateral">>
  /\ \E i \in DOMAIN f.params : "ObligationKey" \in f.params[i]

\* Scenario A: two candidate packages, only one of which exposes such a function
ScenarioA ==
  /\ WithdrawDiscovery /\ disc.pc = "done"
  /\ Len(disc.pkgs) = 2
  /\ Cardinality({f.pkg : f \in {disc.found[i] : i \in {j \in DOMAIN disc.found :
                                     IsCapabilityWithdraw(disc.found[j])}}}) = 1

\* C11 as stated: discovery returns the matching entries by non-increasing
\* score, ties in discovery order, so that in Scenario A the withdraw_collateral
\* function with the capability parameter is ranked first and selected.
C11_RankedAndScenarioA ==
  /\ RankedByScore
  /\ ScenarioA => IsCapabilityWithdraw(disc.ret[1])

\* C11 as amended: discovery returns the matching entries by non-increasing
\* score, ties in discovery order, and wd.mjs selects the first; in Scenario A
\* the withdraw_collateral function with the capability parameter is ranked
\* first when no entry of another shape scores more than it, or as much while
\* discovered earlier (the score counts the other role parameters too).
C11_RankedScenarioAWhenTopScore ==
  /\ RankedByScore
  /\ ScenarioA =>
       LET r == disc.found
           caps == {i \in DOMAIN r : IsCapabilityWithdraw(r[i])}
           outranked ==
             \A i \in caps : \E j \in DOMAIN r \ caps :
               \/ r[j].score > r[i].score
               \/ r[j].score = r[i].score /\ DiscoveredBefore(r[j], r[i])
       IN IsCapabilityWithdraw(disc.ret[1]) <=> ~outranked

\* Scenario A with a tie: the first package exposes the withdraw_collateral
\* function with the capability (13 points), the second an x_withdraw entry of
\* 13 points too; the capability function, discovered first, is ranked first
\* and wd.mjs selects it.
C11_Witness ==
  /\ ScenarioA
  /\ disc.script = "wd"
  /\ Len(disc.found) = 2
  /\ disc.found[1].score = disc.found[2].score
  /\ disc.found[1].pkg = 1 /\ disc.found[2].pkg = 2
  /\ IsCapabilityWithdraw(disc.ret[1])

\* the weight the claim gives the parameter of a role; none for the clock and
\* the price oracle
RoleWeight(t) ==
  CASE t = "Version" -> 1
    [] t = "Obligation" -> 2
    [] t = "ObligationKey" -> 2
    [] t = "Market" -> 1
    [] t = "U64" -> 1
    [] t = "Registry" -> 2
    [] OTHER -> 0

RECURSIVE SumWeights(_)
SumWeights(T) ==
  IF T = {} THEN 0
  ELSE LET t == CHOOSE x \in T : TRUE IN RoleWeight(t) + SumWeights(T \ {t})

HasWord(f, w) == (\E i \in DOMAIN f.module : f.module[i] = w) \/ (\E i \in DOMAIN f.fn : f.fn[i] = w)

\* "withdraw" directly followed by "collateral" in the module or function name
HasPhrase(f) ==
  \/ \E i \in 1..(Len(f.module) - 1) : f.module[i] = "withdraw" /\ f.module[i + 1] = "collateral"
  \/ \E i \in 1..(Len(f.fn) - 1) : f.fn[i] = "withdraw" /\ f.fn[i + 1] = "collateral"

\* the name ends with withdraw, withdraw_collateral or withdraw_collateral_entry
HasSuffix(f) ==
  LET n == Len(f.fn) IN
  \/ f.fn[n] = "withdraw"
  \/ n >= 2 /\ f.fn[n - 1] = "withdraw" /\ f.fn[n] = "collateral"
  \/ n >= 3 /\ f.fn[n - 2] = "withdraw" /\ f.fn[n - 1] = "collateral" /\ f.fn[n] = "entry"

ClaimedScore(f) ==
  (IF HasWord(f, "withdraw") THEN 3 ELSE 0) + (IF HasPhrase(f) THEN 5 ELSE 0)
    + (IF HasSuffix(f) THEN 2 ELSE 0)
    + SumWeights(UNION {f.params[i] : i \in DOMAIN f.params})

\* C12: the score of every discovered entry is the sum of the nine weights of
\* the claim and of nothing else, hence at least 3 and at most 19.
C12_ScoreIsWeightedSum ==
  WithdrawDiscovery =>
    \A i \in DOMAIN disc.found :
      /\ disc.found[i].score = ClaimedScore(disc.found[i])
      /\ disc.found[i].score >= 3
      /\ disc.found[i].score <= 19

\* C12 witness: withdraw_collateral with a parameter of every role, clock and
\* oracle included, scores 19
C12_Witness ==
  /\ WithdrawDiscovery /\ disc.pc = "done"
  /\ Len(disc.found) = 1
  /\ disc.found[1].score = 19
  /\ UNION {disc.found[1].params[i] : i \in DOMAIN disc.found[1].params} = Tags

\* a discovered entry with nothing but the keyword in its name scores 3
C12_WitnessLow ==
  WithdrawDiscovery /\ disc.pc = "done" /\ disc.found[1].score = 3

\* C13: discovery fails, with the 'no entry found' error, exactly when no
\* candidate package yields a matching entry; a candidate that is not a package
\* or whose lookup fails is skipped.
C13_FailsIffNoMatch ==
  disc.pc # "idle" =>
    /\ disc.pc = "failed" => disc.err = "no entry found" /\ MatchPlaces = {}
    /\ disc.pc = "done" => MatchPlaces # {} /\ disc.ret # <<>>
    /\ disc.pc = "scan" => disc.err = ""
    /\ \A k \in 1..Len(disc.pkgs) :
         (disc.pkgs[k].kind # "package" /\ disc.k > k) => disc.pc # "failed" \/ MatchPlaces = {}

\* C13 witness: the first candidate is not a package, the second yields a
\* match: discovery returns it
C13_Witness ==
  /\ disc.pc = "done"
  /\ Len(disc.pkgs) = 2
  /\ disc.pkgs[1].kind = "notpkg"
  /\ Len(disc.found) = 1 /\ disc.found[1].pkg = 2

\* no candidate yields a match: the second exposes the keyword only on a
\* function that is not an entry
C13_WitnessFails ==
  /\ disc.pc = "failed"
  /\ Len(disc.pkgs) = 2
  /\ disc.pkgs[1].kind = "error"
  /\ disc.pkgs[2].kind = "package" /\ disc.pkgs[2].listing # <<>>

\* ------------------------------------------------------------ claims C14..
\* the network calls of the calls made so far, the current one included
AllCalls == {net} \cup {pb.hist[i].net : i \in DOMAIN pb.hist}

Submits(calls) == \E i \in DOMAIN calls : calls[i] = "signAndExecuteTransactionBlock"

\* C14: probing never submits: in no sequence of calls of probeEntry (alone or
\* from findMaxWithdrawable) or of the registry-candidate test is a signed
\* transaction submitted, whatever DRYRUN is; the calls made are lookups, the
\* build and the dry run.
C14_ProbingNeverSubmits ==
  (pb.pc # "idle" /\ pb.site \in ProbeSites) =>
    /\ pb.pc # "submit"
    /\ \A calls \in AllCalls :
         /\ ~Submits(calls)
         /\ \A i \in DOMAIN calls :
              calls[i] \in {"getNormalizedMoveModulesByPackage", "getObject", "build",
                            "dryRunTransactionBlock"}

\* C14 witness: two probes in a row with DRYRUN unset, each ending with its dry
\* run
C14_Witness ==
  /\ pb.pc = "returned" /\ pb.site = "probeEntry" /\ ~pb.dryrun
  /\ Len(pb.hist) = 1 /\ pb.hist[1].pc = "returned"
  /\ net[Len(net)] = "dryRunTransactionBlock"
  /\ pb.hist[1].net = net

\* C15: with the dry-run flag set, no transaction is submitted during the whole
\* run of the withdraw, borrow or repay script: every run of the transaction is
\* a dry run and nothing else is sent.
C15_DryRunNeverSubmits ==
  (ex.script \in WithdrawScripts \cup RetryScripts /\ ex.dryrun) =>
    /\ Submissions = <<>>
    /\ ex.merge \notin {"submitted", "rejected"}

\* C16: with WITHDRAW_TARGET configured, discovery is bypassed entirely (no
\* candidate package is scanned) and the override is the target of every
\* transaction that is simulated or submitted.
C16_OverrideBypassesDiscovery ==
  (disc.pc # "idle" /\ disc.override) =>
    /\ disc.pc # "scan" /\ disc.k = 1 /\ disc.found = <<>>
    /\ disc.txs \subseteq {OverrideTarget}

\* ------------------------------------------------------------ claim C17
\* an id was looked up and found owned by an address or by an object
ObservedOwned(id) == \E k \in {"AddressOwner", "ObjectOwner"} : <<id, k>> \in own.seen

\* C17: an object id whose ownership kind is observed to be neither Shared nor
\* Immutable is never used as a shared-resource argument of a submittable
\* transaction, except in best-effort mode; this covers the registry candidate
\* and the fixed version/market ids
C17_OwnedIdNeverUsed ==
  \A id \in own.used : ObservedOwned(id) => own.mode = "best-effort"

\* ------------------------------------------------------------ claim C18
AtOrBelowDust(c) == c.max = 0 \/ c.max <= drn.dust

\* C18 as stated: in drain mode the cycle is repeated while the discovered
\* maximum is above the dust threshold and the execution succeeds, the loop
\* stops as soon as findMax returns 0 or a value at or below the threshold, and
\* no cycle whose discovered maximum is at or below the threshold submits
C18_NoSubmitAtOrBelowDust ==
  \A k \in DOMAIN drn.cycles :
    LET c == drn.cycles[k] IN
    drn.drain /\ c.probed /\ AtOrBelowDust(c) => c.subs = <<>>

\* C18 amended: the dust threshold is tested in the cycles of the drain loop,
\* those after the first execution.  Such a cycle at or below the threshold
\* submits nothing and ends the loop; a further cycle is started exactly after
\* a cycle whose execution succeeded; the loop ends only on a maximum at or
\* below the threshold or on a failed execution.  The first cycle stops only
\* at a maximum of 0.
C18_DrainLoopStopsAtDust ==
  LET cs == drn.cycles IN
  /\ \A k \in DOMAIN cs :
       /\ cs[k].kind = "drain" /\ AtOrBelowDust(cs[k])
            => cs[k].subs = <<>> /\ k = Len(cs) /\ drn.pc = "done"
       /\ cs[k].probed /\ cs[k].max = 0 => cs[k].subs = <<>> /\ k = Len(cs)
       /\ k < Len(cs) => cs[k].ok = "success" /\ drn.drain
       /\ k > 1 => cs[k].kind = "drain" /\ cs[k].probed
  /\ drn.pc = "done" /\ drn.drain =>
       \/ cs[Len(cs)].ok = "fail"
       \/ cs[Len(cs)].kind = "drain" /\ AtOrBelowDust(cs[Len(cs)])
  /\ drn.pc = "find" => drn.drain /\ cs[Len(cs)].ok = "success"
  /\ drn.pc = "cycle" => ~AtOrBelowDust(cs[Len(cs)])

\* C18 witness: a first cycle, a drain cycle that submits, and a drain cycle
\* that finds a maximum at or below a dust threshold above 0 and ends the loop
C18_Witness ==
  /\ drn.pc = "done" /\ drn.dust > 0
  /\ Len(drn.cycles) = 3
  /\ drn.cycles[2].subs # <<>>
  /\ drn.cycles[3].max > 0 /\ drn.cycles[3].max <= drn.dust

\* ------------------------------------------------------------ claim C19
\* the calls of probeEntry that ran to their dry run: the earlier ones and the
\* current one, each a pair of what the dry run answered and what was returned
ProbesReturned ==
  {[sim |-> pb.hist[i].sim, res |-> pb.hist[i].res] :
     i \in {j \in DOMAIN pb.hist : pb.hist[j].pc = "returned"}}
  \cup (IF pb.pc = "returned" THEN {[sim |-> pb.sim, res |-> pb.res]} ELSE {})

C19_WitnessAccepted ==
  /\ pb.pc = "returned" /\ pb.site = "probeEntry"
  /\ Len(pb.hist) = 1 /\ pb.hist[1].pc = "returned"
  /\ pb.hist[1].sim = pb.sim /\ pb.res.ok /\ pb.hist[1].res.ok

\* ------------------------------------------------------------ claim C20
\* C20: every submission attempt uses a transaction built fresh for that
\* attempt: a transaction object that was submitted once is never submitted
\* again on a retry, in the withdraw, repay and borrow executors
C20_FreshTransactionPerAttempt ==
  \A i \in DOMAIN attempts, j \in DOMAIN attempts :
    (i < j /\ attempts[i].kind = "submit" /\ attempts[j].kind = "submit")
      => attempts[i].tx # attempts[j].tx

\* ------------------------------------------------------------ claim C21
\* the FATAL line of wdsui.mjs after a failed first attemptWithBackoff: lastErr
\* when one was kept, 'Unknown execution failure.' otherwise
FinalReport(e) == IF e.lastErr # <<>> THEN e.lastErr ELSE <<{"unknown"}>>

\* the attempts that were rejected or threw
Rejections == {i \in DOMAIN attempts : attempts[i].kind \in {"dryrun", "submit", "threw"}
                                        /\ ~attempts[i].ok}

\* C21: whenever a run ends in failure because a simulation or submission was
\* rejected or threw, the failure is reported with the raw error message of
\* that rejection: no failure path ends with an 'unknown' error or with the
\* message discarded
C21_FailureCarriesRawError ==
  (ex.script = "wdsui" /\ ex.pc = "done" /\ ex.result = "fail" /\ Rejections # {}) =>
    LET last == CHOOSE i \in Rejections : \A j \in Rejections : j <= i
    IN  FinalReport(ex) = <<attempts[last].err>>

\* ------------------------------------------------------------ claim C22
LastCall == IF net = <<>> THEN "none" ELSE net[Len(net)]

\* C22 as stated: no lookup propagates a network or not-found error, the
\* metadata fetch done by a probe included
C22_LookupsNeverPropagate ==
  ~(pb.pc = "threw" /\ pb.err = "network"
      /\ LastCall = "getNormalizedMoveModulesByPackage")

\* C22 amended: the owner-kind lookup never propagates its error: the call
\* goes on with a null kind and the candidate is skipped.  The metadata fetch
\* of probeEntry and runOnce is not guarded: its error leaves the call before
\* anything is assembled.
C22_OwnerLookupNeverPropagates ==
  pb.pc # "idle" =>
    /\ LastCall = "getObject" => ~(pb.pc = "threw" /\ pb.err = "network")
    /\ (LastCall = "getObject" /\ pb.ownerKind = "null") => pb.pc = "skipped"
    /\ (pb.pc = "threw" /\ pb.err = "network") =>
         /\ LastCall \in {"getNormalizedMoveModulesByPackage", "build",
                         "dryRunTransactionBlock"}
         /\ LastCall = "getNormalizedMoveModulesByPackage" =>
              pb.site \in {"probeEntry", "runOnce"} /\ pb.tx = <<>>

\* C22 witness: the owner lookup of a registry candidate fails and the
\* candidate is skipped
C22_Witness ==
  /\ pb.site = "tryPickWorkingRegistry" /\ pb.pc = "skipped"
  /\ pb.ownerKind = "null" /\ net = <<"getObject">>

\* the metadata fetch of a probe fails and the error leaves probeEntry
C22_WitnessFetchThrows ==
  /\ pb.site = "probeEntry" /\ pb.pc = "threw" /\ pb.err = "network"
  /\ net = <<"getNormalizedMoveModulesByPackage">>

C23_WitnessWithdraw ==
  /\ pb.site = "runOnce" /\ pb.pc = "returned"
  /\ net = <<"getNormalizedMoveModulesByPackage", "build", "dryRunTransactionBlock",
             "signAndExecuteTransactionBlock">>

\* ------------------------------------------------------------ claim C24
\* C24: during adaptive search every trial amount that is probed, in the
\* doubling phase and in the binary-search phase, is non-negative and at most
\* the configured ceiling, and the value returned by findMaxWithdrawable is at
\* most the ceiling
C24_TrialsWithinCeiling ==
  /\ \A i \in DOMAIN probes : probes[i].amt >= 0 /\ probes[i].amt <= capGuess
  /\ fm.pc = "done" => fm.ret <= capGuess

\* ------------------------------------------------------------ claim C25
\* the probes of phase 1 that failed with an error outside the resource-limit pattern
OtherFailures ==
  {i \in DOMAIN probes : /\ probes[i].phase = 1 /\ ~probes[i].ok
                         /\ ~Matches(FindMaxLimitRe, oracle[probes[i].amt].err)}

AcceptedInPhase1 == {i \in DOMAIN probes : probes[i].phase = 1 /\ probes[i].ok}

\* C25 as stated: in phase 1 a resource-limit rejection leads to the binary
\* search, whereas any other error makes findMax return 0, also when smaller
\* guesses were accepted before
C25_OtherErrorEmptiesAmountSpace ==
  (fm.pc = "done" /\ OtherFailures # {}) => fm.ret = 0

\* C25 amended: in phase 1 a failed probe of either kind stops the exploration,
\* and both lead to the binary search from the last accepted guess: the result
\* is 0 exactly when no guess of phase 1 was accepted, and after an accepted
\* guess it is at least that guess, whatever the kind of the failure
C25_AnyFailureStopsAndKeepsLo ==
  /\ \A i \in DOMAIN probes :
       (probes[i].phase = 1 /\ ~probes[i].ok) =>
         \A j \in DOMAIN probes : j > i => probes[j].phase = 2
  /\ fm.pc = "done" =>
       /\ fm.ret = 0 <=> AcceptedInPhase1 = {}
       /\ \A i \in AcceptedInPhase1 : fm.ret >= probes[i].amt

\* C25 witness: a guess is accepted, the next fails with an unclassified error,
\* and findMax returns an amount above 0
C25_Witness ==
  /\ fm.pc = "done" /\ fm.ret > 0
  /\ OtherFailures # {} /\ AcceptedInPhase1 # {}

\* ------------------------------------------------------------ claim C26
\* the entries of the ranking that a transaction was built for: while
\* selecting, for the probes that follow and for the real submission
UsedPlaces ==
  IF disc.script = "wdsui"
    THEN disc.probed \cup {i \in DOMAIN disc.entries : disc.entries[i].target \in disc.txs}
    ELSE {i \in DOMAIN disc.ret : TargetOf(disc.ret[i]) \in disc.txs}

ScoreAt(i) == IF disc.script = "wdsui" THEN disc.entries[i].score ELSE disc.ret[i].score

Ranked == disc.pc \in {"chosen", "picked", "fatal"} /\ disc.ret # <<>> /\ ~disc.override

\* C26 as stated: the entry used for probing and for the real submission is the
\* top-scoring entry of the ranking; a lower-scoring entry is never used while
\* a higher-scoring one exists in the ranking
C26_OnlyTopScoringUsed ==
  (Ranked /\ disc.script \in {"wdsui", "wd"}) =>
    \A i \in UsedPlaces : \A j \in DOMAIN disc.found : disc.found[j].score <= ScoreAt(i)

\* C26 amended: wd.mjs uses the first entry of the ranking.  wdsui.mjs uses the
\* first entry of the ranking that wants a registry when a registry was picked
\* for it (working or best effort); otherwise the first entry without registry
\* whose probe is accepted, every entry without registry ranked before it
\* having been probed; the transactions after the selection are built for the
\* selected entry only.
C26_FirstOfItsKindUsed ==
  /\ (Ranked /\ disc.script = "wd") => disc.txs \subseteq {TargetOf(disc.found[1])}
  /\ (disc.pc \in {"picked", "fatal"} /\ disc.script = "wdsui" /\ disc.entries # <<>>) =>
       LET es == disc.entries
           viaReg == disc.registry \in {"working", "best-effort"}
                       /\ \E i \in DOMAIN es : es[i].reg
       IN /\ disc.pc = "fatal" <=> disc.sel = 0
          /\ disc.sel = 0 => disc.txs = {}
          /\ disc.sel # 0 =>
               /\ disc.txs \subseteq {es[disc.sel].target}
               /\ es[disc.sel].reg <=> viaReg
               /\ \A j \in 1..(disc.sel - 1) :
                    /\ es[j].reg # es[disc.sel].reg
                         \/ (~es[j].reg /\ j \in disc.probed)
                    /\ es[j].reg = es[disc.sel].reg => es[j].score >= es[disc.sel].score
          /\ \A i \in DOMAIN es : \A j \in DOMAIN es : i < j => es[i].score >= es[j].score

\* C26 witness: the registry selection fails for the top entry (score 15) and
\* the entry without registry ranked below it (score 13) is selected and used
C26_Witness ==
  /\ disc.pc = "picked" /\ disc.script = "wdsui" /\ ~disc.override
  /\ disc.sel = 2 /\ disc.entries[1].reg /\ ~disc.entries[2].reg
  /\ disc.entries[1].score > disc.entries[2].score
  /\ disc.txs = {disc.entries[2].target}

\* wd.mjs builds its transaction for the first of two ranked entries
C26_WitnessWd ==
  /\ disc.pc = "chosen" /\ disc.script = "wd" /\ ~disc.override
  /\ Len(disc.found) = 2 /\ disc.found[1].score > disc.found[2].score
  /\ disc.txs = {TargetOf(disc.found[1])}

\* ------------------------------------------------------------------ claim C27
\* C27 as stated: in every transaction built, the Obligation id is the
\* ownership.of stored in the ObligationKey the transaction uses, whatever
\* OBLIGATION_ID and OBLIGATION_KEY_ID are set to
C27_PositionIsKeysBackReference ==
  pair.pc = "built" =>
    /\ pair.tx.key \in DOMAIN pair.chain
    /\ pair.chain[pair.tx.key].of = pair.tx.obligation

\* ------------------------------------------------------------------ claim C28
\* the order in which buildWithdrawArgs tests the patterns
RolePriority ==
  <<"Version", "Obligation", "ObligationKey", "Market", "Registry", "U64", "Oracle", "Clock">>

\* the first pattern of the order that the parameter matches (0: none)
FirstMatch(p) ==
  LET hits == {k \in DOMAIN RolePriority : RolePriority[k] \in p}
  IN IF hits = {} THEN 0 ELSE SetMin(hits)

\* what the branch of a pattern pushes
BranchArg(tag, ctx) ==
  CASE tag = "Version" -> ObjectArg("VERSION_ID")
    [] tag = "Obligation" -> ObjectArg("obligationId")
    [] tag = "ObligationKey" -> ObjectArg(ctx.obligationKeyId)
    [] tag = "Market" -> ObjectArg("MARKET_ID")
    [] tag = "Registry" -> ObjectArg(ctx.DECIMALS_REGISTRY_ID)
    [] tag = "U64" -> U64Arg(ctx.amountRaw[1])
    [] tag = "Oracle" -> ObjectArg("X_ORACLE_ID")
    [] tag = "Clock" -> ObjectArg("CLOCK_ID")

\* C28: buildWithdrawArgs gives each parameter the argument of the first role,
\* in the order version, position, capability, market, price registry, numeric
\* amount, oracle, clock, that the parameter matches; and every argument that
\* is a numeric amount is the one configured amount of the call, so two
\* numeric parameters get that amount twice.
C28_FirstRoleWinsOneAmount ==
  (Assembled /\ pb.built.ok) =>
    LET matched == SelectSeq(pb.params, LAMBDA p : FirstMatch(p) # 0)
        args == pb.built.args
    IN /\ Len(args) = Len(matched)
       /\ \A i \in 1..Len(matched) :
            args[i] = BranchArg(RolePriority[FirstMatch(matched[i])], pb.ctx)
       /\ \A i \in 1..Len(args) :
            args[i].kind = "u64" => args[i].amt = pb.ctx.amountRaw[1]

\* two numeric parameters: the amount is passed twice
C28_Witness ==
  /\ Assembled /\ pb.built.ok
  /\ pb.params = <<{"U64"}, {"U64"}>>
  /\ pb.built.args = <<U64Arg(pb.ctx.amountRaw[1]), U64Arg(pb.ctx.amountRaw[1])>>

\* a parameter matching two patterns takes the earlier role
C28_WitnessPriority ==
  /\ Assembled /\ pb.built.ok
  /\ \E i \in 1..Len(pb.params) : pb.params[i] = {"ObligationKey", "U64"}
  /\ \A i \in 1..Len(pb.built.args) : pb.built.args[i].kind = "object"

\* ------------------------------------------------------------------ claim C29
\* the transaction of the run was given to tx.build
TxBuilt ==
  /\ pb.pc # "idle" /\ pb.site \in MatcherSites
  /\ \E i \in DOMAIN net : net[i] = "build"

\* C29: every transaction built for a probe, a registry-candidate test or a
\* real withdraw submission holds the three price-refresh calls in the order
\* request, assert under the TTL, confirm, all three before the action call;
\* the action call is never the first command of a transaction.
C29_RefreshPrecedesAction ==
  /\ TxBuilt =>
       /\ Len(pb.tx) = 4
       /\ pb.tx[1] = "price_update_request"
       /\ pb.tx[2] = "set_price_as_primary"
       /\ pb.tx[3] = "confirm_price_update_request"
       /\ pb.tx[4] = "withdraw"
  /\ (pb.pc # "idle" /\ pb.site \in MatcherSites) =>
       \A i \in DOMAIN pb.tx :
         pb.tx[i] = "withdraw" =>
           /\ i > 1
           /\ \E a, b, c \in 1..(i - 1) :
                /\ a < b /\ b < c
                /\ pb.tx[a] = "price_update_request"
                /\ pb.tx[b] = "set_price_as_primary"
                /\ pb.tx[c] = "confirm_price_update_request"

\* a real withdraw submission of wdsui.mjs
C29_Witness ==
  /\ TxBuilt /\ pb.site = "runOnce"
  /\ Submits(net)
  /\ pb.tx[4] = "withdraw"

\* a registry-candidate test
C29_WitnessRegistryTest ==
  /\ TxBuilt /\ pb.site = "tryPickWorkingRegistry"
  /\ pb.tx[1] = "price_update_request" /\ pb.tx[4] = "withdraw"

\* a probe
C29_WitnessProbe ==
  /\ TxBuilt /\ pb.site = "probeEntry"
  /\ pb.tx[1] = "price_update_request" /\ pb.tx[4] = "withdraw"

\* ------------------------------------------------------------------ claim C30
\* the amount attemptWithBackoff was called with in a cycle
CycleStart(c) == IF c.probed THEN c.max ELSE drn.desired

\* floor of half, n times
RECURSIVE Halved(_, _)
Halved(a, n) == IF n = 0 THEN a ELSE Halved(a \div 2, n - 1)

\* C30 as stated: every amount the withdraw executor submits is at least 1; in
\* one attemptWithBackoff call the submitted amounts are strictly decreasing,
\* each the floor of half the one submitted before it; the first attempt and
\* the drain cycles never submit 0, in every mode and for a known or unknown
\* available balance.
C30_EachSubmittedHalfOfPrevious ==
  \A k \in DOMAIN drn.cycles :
    LET subs == drn.cycles[k].subs IN
    /\ \A j \in DOMAIN subs : subs[j] >= 1
    /\ \A j \in 1..(Len(subs) - 1) :
         subs[j + 1] < subs[j] /\ subs[j + 1] = subs[j] \div 2

\* C30 amended: every amount submitted is at least 1, in every mode and for a
\* known or unknown available balance, in the first execution and in the drain
\* cycles.  In one attemptWithBackoff call the amount of an attempt is the
\* floor of half the amount of the attempt before it, whether that attempt
\* reached the submission or threw before it; so the submitted amounts are
\* strictly decreasing, and each is the one submitted before it halved once or
\* more (the first: the amount of the call, halved zero times or more).
C30_AttemptsHalveSubmittedShrink ==
  /\ \A k \in DOMAIN drn.cycles :
       LET c == drn.cycles[k]
           subs == c.subs
       IN /\ \A j \in DOMAIN subs : subs[j] >= 1
          /\ subs # <<>> =>
               \E n \in 0..MaxRetryCfg : subs[1] = Halved(CycleStart(c), n)
          /\ \A j \in 1..(Len(subs) - 1) :
               /\ subs[j + 1] < subs[j]
               /\ \E n \in 1..MaxRetryCfg : subs[j + 1] = Halved(subs[j], n)
  /\ (drn.pc \in {"first", "cycle"} /\ drn.e.pc \in {"loop", "sleep"}) =>
       LET start == CycleStart(drn.cycles[Len(drn.cycles)]) IN
       /\ drn.e.amount >= 1
       /\ ~drn.dryrun /\ drn.e.pc = "loop" => drn.e.amount = Halved(start, drn.e.i - 1)
       /\ ~drn.dryrun /\ drn.e.pc = "sleep" => drn.e.amount = Halved(start, drn.e.i)

\* C30 witness: an attempt between two submissions threw before its submit,
\* the second amount submitted is a quarter of the first
C30_Witness ==
  \E k \in DOMAIN drn.cycles :
    /\ Len(drn.cycles[k].subs) = 2
    /\ drn.cycles[k].subs[1] >= 4
    /\ drn.cycles[k].subs[2] = Halved(drn.cycles[k].subs[1], 2)

\* percent mode, a known balance of which the share rounds to 0: 1 is submitted
C30_WitnessPercent ==
  /\ drn.mode = "percent" /\ drn.available = 1 /\ drn.pct = 50
  /\ drn.cycles # <<>>
  /\ ~drn.cycles[1].probed /\ drn.cycles[1].subs = <<1>>

\* mode all with a known balance: the first cycle and a drain cycle submit
C30_WitnessAll ==
  /\ drn.mode = "all" /\ drn.available # NullAvailable /\ ~drn.drain
  /\ Len(drn.cycles) >= 2
  /\ drn.cycles[1].subs # <<>> /\ drn.cycles[2].subs # <<>>

\* ------------------------------------------------------------------ claim C31
\* the run is over: process.exit(0) or process.exit(1)
Exited == drn.pc \in {"done", "fatal"}

\* C31: with real submissions (no DRYRUN), simulation accepting exactly the
\* amounts not above the withdrawable balance and a successful submission of a
\* lowering the balance by a, the run with its drain loop ends after finitely
\* many cycles; the drain loop ends with the balance below the start guess of
\* the probe (1 here) or at or below the dust threshold, or after a failed
\* execution.
C31_RealDrainTerminates ==
  /\ [](drn.pc = "done" /\ ~drn.dryrun /\ DrainWanted(drn) =>
          \/ drn.cycles[Len(drn.cycles)].ok = "fail"
          \/ drn.avail < 1
          \/ drn.avail <= drn.dust)
  /\ (drn.pc # "idle" /\ ~drn.dryrun) ~> Exited

\* C31 witness: the drain loop submitted and ended on an empty balance
C31_Witness ==
  /\ drn.pc = "done" /\ ~drn.dryrun /\ DrainWanted(drn)
  /\ Len(drn.cycles) = MaxCycles
  /\ drn.cycles[2].subs # <<>>
  /\ drn.cycles[MaxCycles].kind = "drain" /\ drn.cycles[MaxCycles].max = 0
  /\ drn.avail = 0

\* ------------------------------------------------------------------ claim C32
\* C32 as stated: with DRYRUN set and the drain loop requested, the run
\* reaches its exit
C32_DryRunDrainTerminates ==
  (drn.pc # "idle" /\ drn.dryrun /\ DrainWanted(drn)) ~> Exited

\* ------------------------------------------------------------------ claim C33
\* C33 as stated: in the withdraw, deposit, borrow and repay scripts a
\* transaction whose dry run, in the same attempt, reported a status other
\* than success is not submitted
C33_FailedDryRunNotSubmitted ==
  (pb.pc # "idle" /\ pb.sim.status \notin {"none", "success"}) => ~Submits(net)

\* ------------------------------------------------------------------ claim C34
\* C34 as stated: after all workers have finished, the daily state file
\* records done for every (account, phase) of a daily phase that had a
\* successful repetition in this run, for every interleaving of the workers
C34_NoDailyMarkLost ==
  orc.pc = "finished" => orc.earned \subseteq orc.file

\* ------------------------------------------------------------------ claim C35
\* the accounts being run
Running == {i \in DOMAIN orc.w : orc.w[i].pc = "phase"}

\* C35: no account is run twice and, when runAllAccounts returns, every
\* account was run once; at most max(1, PARALLELISM) accounts run at the same
\* time, at most one when an account carries a key or a key file; an account
\* that fails with another error than stop_on_fail does not keep the others
\* from running (only STOP_ON_FAIL ends the run early).
C35_EachAccountOnceBoundedWorkers ==
  orc.pc # "idle" =>
    /\ \A a \in 1..orc.n : orc.ran[a] <= 1
    /\ \A i, j \in Running : orc.w[i].acc = orc.w[j].acc => i = j
    /\ orc.pc = "finished" => \A a \in 1..orc.n : orc.ran[a] = 1
    /\ Cardinality(Running) <= (IF orc.parallelism >= 1 THEN orc.parallelism ELSE 1)
    /\ (\E a \in 1..orc.n : orc.keys[a]) => Cardinality(Running) <= 1
    /\ orc.pc = "exited" => orc.stopOnFail

\* C35 witness: two accounts ran at the same time, one account ended with an
\* error, and all the accounts were run
C35_Witness ==
  /\ orc.pc = "finished" /\ orc.n = MaxAccounts /\ orc.parallelism = MaxParallel
  /\ orc.fatal # {} /\ orc.fatal # 1..orc.n
  /\ \A a \in 1..orc.n : orc.ran[a] = 1

\* accounts with keys: one at a time
C35_WitnessKeys ==
  /\ orc.pc = "finished" /\ orc.n = MaxAccounts /\ orc.parallelism = MaxParallel
  /\ \E a \in 1..orc.n : orc.keys[a]
  /\ DOMAIN orc.w = {1}

\* ------------------------------------------------------------------ claim C36
\* the runs of the transaction in the deposit loop (no sleeps)
DepositRuns == SelectSeq(attempts, LAMBDA a : a.kind # "sleep")

\* C36: every amount deposit.mjs submits is at least MIN_DEPOSIT and at most
\* the balance of the largest coin minus DUST; the amounts submitted in one
\* run never increase; after a failure whose message contains 1793 the next
\* target is max(floor(amount / 2), MIN_DEPOSIT); any other failure ends the
\* run with no further submission; at most MAX_RETRY submissions are made.
C36_DepositAmountsBounded ==
  ex.script = "deposit" =>
    LET runs == DepositRuns
        subs == SelectSeq(attempts, LAMBDA a : a.kind = "submit")
        cap == ex.bal - DepDust
    IN /\ \A j \in DOMAIN subs :
            subs[j].amount >= DepMinDeposit /\ subs[j].amount <= cap
       /\ \A j \in 1..(Len(subs) - 1) : subs[j + 1].amount <= subs[j].amount
       /\ Len(subs) <= ex.maxRetry
       /\ \A j \in DOMAIN runs :
            LET a == runs[j]
                half == a.amount \div 2
                target == IF half >= DepMinDeposit THEN half ELSE DepMinDeposit
            IN IF a.ok THEN j = Len(runs) /\ ex.result = "success"
               ELSE IF "1793" \in a.err THEN
                 /\ j = Len(runs) /\ ex.pc \in {"sleep", "loop"} => ex.want = target
                 /\ j < Len(runs) =>
                      runs[j + 1].amount = (IF target <= cap THEN target ELSE cap)
               ELSE j = Len(runs) /\ ex.pc = "done" /\ ex.result = "fail"

\* C36 witness: a submission rejected with 1793, then the halved amount
\* submitted and accepted
C36_Witness ==
  /\ ex.script = "deposit" /\ ex.pc = "done" /\ ex.result = "success"
  /\ Len(DepositRuns) = 2
  /\ DepositRuns[1].kind = "submit" /\ "1793" \in DepositRuns[1].err
  /\ DepositRuns[1].amount = 5
  /\ DepositRuns[2].kind = "submit" /\ DepositRuns[2].amount = 2

\* ------------------------------------------- repay.mjs and borrow.mjs: main
MaxGasCfg == 3
MaxSui == 4
MaxCoins == 3
MaxCoinBal == 2
MaxTarget == 3

\* GAS_SAFETY and MIN_GAS_FALLBACK, scaled
GasSafetyBuffer == 1
MinGasFallback == 2

\* the clamp of the gas budget against the largest SUI coin
GasClamp(gasCfg, suiBal) ==
  IF suiBal > 0 /\ gasCfg >= suiBal THEN
    LET clamped == IF suiBal > GasSafetyBuffer THEN suiBal - GasSafetyBuffer ELSE 0
    IN IF clamped > 0 THEN clamped ELSE MinGasFallback
  ELSE gasCfg

\* sumBigint
RECURSIVE SumBal(_)
SumBal(c) == IF c = <<>> THEN 0 ELSE Head(c) + SumBal(Tail(c))

\* the coins largest first, as indices into the coin list; the sort is stable
ByBig(c) ==
  LET before(j, i) == c[j] > c[i] \/ (c[j] = c[i] /\ j < i)
  IN [k \in 1..Len(c) |->
        CHOOSE i \in 1..Len(c) :
          Cardinality({j \in 1..Len(c) : before(j, i)}) = k - 1]

\* Mutant of Take: the whole coin is split off whatever remains to repay.
TakeWholeCoin(bal, remain) == bal

\* what is split from a coin of balance bal when remain is still to repay
Take(bal, remain) == IF bal >= remain THEN remain ELSE bal

InitRepay ==
  /\ FindMaxIdle
  /\ ExecIdle
  /\ ProbeIdle
  /\ DiscIdle
  /\ OwnIdle
  /\ DrainIdle
  /\ PairIdle
  /\ OrcIdle
  /\ \E gasCfg \in 1..MaxGasCfg, suiBal \in 0..MaxSui :
       LET base == [pc |-> "gas", gasCfg |-> gasCfg, suiBal |-> suiBal,
                    gasBudget |-> gasCfg, byBig |-> <<>>, k |-> 1, remain |-> 0,
                    portions |-> <<>>]
       IN \/ \E am \in BOOLEAN :
               rp = base @@ [script |-> "borrow", autoMerge |-> am, coins |-> <<>>,
                             mode |-> "amount", target |-> 0]
          \/ \E coins \in SeqsUpTo(0..MaxCoinBal, MaxCoins), mode \in {"amount", "all"},
                target \in 0..MaxTarget :
               rp = base @@ [script |-> "repay", autoMerge |-> FALSE, coins |-> coins,
                             mode |-> mode, target |-> target]

\* the first clamp of the gas budget, in both scripts
RpGasClamp ==
  /\ rp.pc = "gas"
  /\ rp' = [rp EXCEPT !.gasBudget = GasClamp(rp.gasCfg, rp.suiBal),
                      !.pc = IF rp.script = "borrow" /\ rp.autoMerge
                                /\ rp.suiBal < rp.gasCfg
                             THEN "merge" ELSE "coins"]
  /\ UNCHANGED notRp

\* borrow.mjs with AUTO_MERGE_SUI: merge attempted, the largest coin read again
\* and the budget clamped again
RpMerge ==
  /\ rp.pc = "merge"
  /\ \E sui2 \in rp.suiBal..MaxSui :
       rp' = [rp EXCEPT !.suiBal = sui2,
                        !.gasBudget = GasClamp(rp.gasCfg, sui2),
                        !.pc = "coins"]
  /\ UNCHANGED notRp

\* borrow.mjs: the transaction is created with the budget
RpBorrowBuild ==
  /\ rp.pc = "coins" /\ rp.script = "borrow"
  /\ rp' = [rp EXCEPT !.pc = "built"]
  /\ UNCHANGED notRp

\* repay.mjs: the coins are listed and the target fixed; the transaction is
\* created with the budget and the coins are sorted
RpCoins ==
  /\ rp.pc = "coins" /\ rp.script = "repay"
  /\ LET total == SumBal(rp.coins)
         wantAll == rp.mode = "all"
         targetRaw == IF wantAll THEN total ELSE rp.target
     IN IF rp.coins = <<>> \/ (~wantAll /\ total < targetRaw)
        THEN rp' = [rp EXCEPT !.pc = "threw"]
        ELSE rp' = [rp EXCEPT !.target = targetRaw, !.remain = targetRaw,
                              !.byBig = ByBig(rp.coins), !.k = 1, !.pc = "split"]
  /\ UNCHANGED notRp

\* whether the loop over the sorted coins goes on
RpLoopOn(r) == r.k <= Len(r.byBig) /\ (r.mode = "all" \/ r.remain # 0)

\* one iteration of the loop over the sorted coins
RpSplit ==
  /\ rp.pc = "split" /\ RpLoopOn(rp)
  /\ LET c == rp.byBig[rp.k]
         bal == rp.coins[c]
         take == IF rp.mode = "all" THEN bal ELSE Take(bal, rp.remain)
     IN IF bal = 0
        THEN rp' = [rp EXCEPT !.k = @ + 1]
        ELSE rp' = [rp EXCEPT !.k = @ + 1,
                              !.portions = Append(@, [coin |-> c, amount |-> take]),
                              !.remain = IF rp.mode = "all" THEN @ ELSE @ - take]
  /\ UNCHANGED notRp

\* after the loop
RpLoopEnd ==
  /\ rp.pc = "split" /\ ~RpLoopOn(rp)
  /\ rp' = [rp EXCEPT !.pc = IF rp.mode # "all" /\ rp.remain > 0
                             THEN "threw" ELSE "built"]
  /\ UNCHANGED notRp

NextRepay ==
  \/ RpGasClamp
  \/ RpMerge
  \/ RpBorrowBuild
  \/ RpCoins
  \/ RpSplit
  \/ RpLoopEnd

SpecRepay == InitRepay /\ [][NextRepay]_vars

\* ------------------------------------------------------------------ claim C37
RECURSIVE SumPortions(_)
SumPortions(ps) == IF ps = <<>> THEN 0 ELSE Head(ps).amount + SumPortions(Tail(ps))

\* C37: in repay amount mode with a total balance of at least the target, the
\* portions split from the coins, largest coin first and without merging, sum
\* exactly to the target; each portion is positive and at most the balance of
\* its coin, and every portion but possibly the last is the whole balance of
\* its coin; in mode all the portions sum to the total balance.
C37_PortionsSumToTarget ==
  (rp.pc = "built" /\ rp.script = "repay") =>
    LET ps == rp.portions
        n == Len(ps)
    IN /\ \A j \in 1..n :
            /\ ps[j].amount > 0
            /\ ps[j].amount <= rp.coins[ps[j].coin]
            /\ j < n => ps[j].amount = rp.coins[ps[j].coin]
            /\ \A i \in 1..(j - 1) :
                 /\ ps[i].coin # ps[j].coin
                 /\ rp.coins[ps[i].coin] >= rp.coins[ps[j].coin]
       /\ rp.mode = "amount" => SumPortions(ps) = rp.target
       /\ rp.mode = "all" => SumPortions(ps) = SumBal(rp.coins)

\* C37 witness: amount mode, target 3 over coins 1, 2, 2: the two coins of 2
\* are used, the second in part
C37_Witness ==
  /\ rp.pc = "built" /\ rp.script = "repay" /\ rp.mode = "amount"
  /\ rp.coins = <<1, 2, 2>> /\ rp.target = 3
  /\ rp.portions = <<[coin |-> 2, amount |-> 2], [coin |-> 3, amount |-> 1]>>

\* C37 witness, mode all: every coin with a balance gives its whole balance
C37_WitnessAll ==
  /\ rp.pc = "built" /\ rp.script = "repay" /\ rp.mode = "all"
  /\ rp.coins = <<1, 0, 2>>
  /\ rp.portions = <<[coin |-> 3, amount |-> 2], [coin |-> 1, amount |-> 1]>>

\* ------------------------------------------------------------------ claim C38
\* the transaction has been created with the gas budget
GasSet == rp.pc \in {"split", "built"}

\* C38: after the clamp of borrow.mjs and repay.mjs the gas budget set on the
\* transaction is positive, at most the configured GAS_BUDGET, and at most the
\* balance of the largest SUI coin, whatever that balance is.
C38_GasBudgetWithinBalance ==
  GasSet =>
    /\ rp.gasBudget > 0
    /\ rp.gasBudget <= rp.gasCfg
    /\ rp.gasBudget <= rp.suiBal

\* C38, what does hold: the budget is positive, and it is within the
\* configured budget and the balance when the balance is above the buffer
C38_GasBudgetWithinBalanceAboveBuffer ==
  GasSet =>
    /\ rp.gasBudget > 0
    /\ rp.suiBal > GasSafetyBuffer =>
         rp.gasBudget <= rp.gasCfg /\ rp.gasBudget <= rp.suiBal
====
